---- MODULE Spec2Model ----
(***************************************************************************)
(* Model of the crawling pipeline of llm-newsletter-kit-core               *)
(* (src/generate-newsletter/chains/crawling.chain.ts).                     *)
(*                                                                         *)
(* One group of targets is run by executeGroupPipeline.  Every target goes *)
(* through the stages List Fetch, List Parse, Dedupe, Detail Fetch, Detail *)
(* Parse, Merge and Save; the stage sequence is wrapped in withRetry and   *)
(* the targets are run by batch under maxConcurrency.  The collaborators   *)
(* (getHtmlFromUrl, target.parseList, target.parseDetail, the provider's   *)
(* fetchExistingArticlesByUrls and saveCrawledArticles) are the            *)
(* environment: each of their calls settles with a value drawn from a      *)
(* small set, or throws.                                                   *)
(*                                                                         *)
(* JavaScript objects are functions from field names to values, so that    *)
(* the object spread and es-toolkit's omit are computed field by field.    *)
(***************************************************************************)
EXTENDS Integers, Sequences, FiniteSets, TLC

\* ------------------------------------------------------------------ bounds

\* Longest list target.parseList returns when the group has one target.
MaxItems == 2
\* Longest list target.parseList returns when the group has several targets.
GroupMaxItems == 1
\* Number of targets of the group under GroupSpec.
NumTargets == 2
\* Largest configured attempt budget (options.chain.stopAfterAttempt).
MaxAttempts == 2
\* Largest maxConcurrency a provider sets explicitly.
MaxConfiguredConcurrency == 2
\* Longest list target.parseList returns when the group is run twice.
RerunMaxItems == 1
\* Number of correlation ids, and longest list and longest payload list, of
\* a direct call of parseDetailPagesHtml.
DirectMaxIds == 2
DirectMaxLen == 2

\* provider.maxConcurrency ??= 5
DefaultMaxConcurrency == 5

\* ------------------------------------------------------------- value sets

\* provider.maxConcurrency: left unset, or set to n
Unset == <<>>
Configured(n) == <<n>>

\* Detail URLs the listing pages of a one-target group can name.
AllUrls == {"u1", "u2"}

\* Detail URLs the listing pages of a group of several targets can name.
GroupUrls == {"u1"}

\* A correlation id the pipeline never minted (a field named pipelineId
\* that a source-specific parser put into its own result).
ForeignId == 0

\* Sequences over S of length at most n.
SeqUpTo(S, n) == UNION {[1..k -> S] : k \in 0..n}

\* ----------------------------------------------------------- JS helpers

\* { ...a, ...b }
Spread(a, b) ==
  [f \in DOMAIN a \cup DOMAIN b |-> IF f \in DOMAIN b THEN b[f] ELSE a[f]]

\* omit(obj, keys)
Omit(obj, keys) == [f \in DOMAIN obj \ keys |-> obj[f]]

\* new Map(list.map((item) => [item.pipelineId, item])): the ids the map has
MapKeys(list) == {list[i].pipelineId : i \in 1..Len(list)}

\* listItemMap.get(id): a later entry of the same key replaces an earlier one
MapGet(list, id) ==
  list[CHOOSE i \in 1..Len(list) :
         /\ list[i].pipelineId = id
         /\ \A j \in 1..Len(list) : list[j].pipelineId = id => j <= i]

\* ------------------------------------------------------------------ state

VARIABLES
  runs,             \* how many times the caller runs executeGroupPipeline
  run,              \* which of these runs is going on
  firstRun,         \* what the collaborators were asked and answered in the
                    \*   run before this one
  saveCalls,        \* per target: the article lists saveCrawledArticles
                    \*   was called with in this run, attempt after attempt,
                    \*   where the store records its calls; unset otherwise
  executions,       \* what the logging executor was called with, in call
                    \*   order, for the group run and per target, and which
                    \*   events each call emitted, where the executor
                    \*   records its calls; unset otherwise
  targets,          \* group.targets
  maxConcurrency,   \* provider.maxConcurrency after the constructor
  stopAfterAttempt, \* options.chain.stopAfterAttempt
  gpc,              \* executeGroupPipeline: "idle", "running", "returned", "threw"
  total,            \* the value executeGroupPipeline returned
  nextUuid,         \* randomUUID(): the next value it mints
  pc,               \* per target: the stage about to run, or how it ended
  attempt,          \* per target: number of the attempt in progress
  listFetched,      \* per target: how getHtmlFromUrl(target.url) settled
  listPageHtml,     \* per target: result of fetchListPageHtml
  listParsed,       \* per target: how target.parseList settled
  parsedList,       \* per target: result of parseListPageHtml
  lookup,           \* per target: how fetchExistingArticlesByUrls settled
  list,             \* per target: result of dedupeListItems
  fetchSettled,     \* per target: the promises Detail Fetch awaits, per item
  parseSettled,     \* per target: the promises Detail Parse awaits, per payload
  detailFetchResult,\* per target: result of fetchDetailPagesHtml
  detailParseResult,\* per target: result of parseDetailPagesHtml
  processedArticles,\* per target: result of mergeParsedArticles
  count,            \* per target: result of saveArticles
  errors,           \* per target: logger.error events of the attempt in progress
  saved,            \* per target: the saveCrawledArticles calls of the attempt
                    \*   in progress: the articles handed over, how it settled
  markdown,         \* ensureHrBeforeH2: its argument
  hrPc,             \* ensureHrBeforeH2: "idle", "called", "returned"
  hrResult,         \* ensureHrBeforeH2: the string it returned
  titleContext,     \* options.content.titleContext
  llmPc,            \* GenerateNewsletter.execute: "idle", "calling", "returned"
  generateTextCalls,\* what generateText resolved to, call by call
  totalUsage,       \* the usage execute has added up so far
  executeResult,    \* what GenerateNewsletter.execute returned
  crawlingTargetGroups, \* provider.crawlingTargetGroups, where the chain
                    \*   getter is followed: per group its name and targets
  entries           \* per key of the chain's mapping: whether the entry was
                    \*   invoked, how its run ended and what it returned

config == <<runs, targets, maxConcurrency, stopAfterAttempt>>
history == <<run, firstRun, saveCalls, executions>>
group == <<gpc, total>>
stageData == <<listFetched, listPageHtml, listParsed, parsedList, lookup, list, fetchSettled, parseSettled,
               detailFetchResult, detailParseResult, processedArticles, count,
               errors, saved>>
text == <<markdown, hrPc, hrResult>>
llm == <<titleContext, llmPc, generateTextCalls, totalUsage, executeResult>>
chain == <<crawlingTargetGroups, entries>>
utils == <<text, llm, chain>>
vars == <<config, history, group, nextUuid, pc, attempt, stageData, utils>>

AllTargets == 1..NumTargets

NoFetchResult == [list |-> <<>>, detailPagesHtmlWithPipelineId |-> <<>>, failedCount |-> 0]
NoParseResult == [list |-> <<>>, parsedDetails |-> <<>>, failedCount |-> 0]

\* The longest list parseList returns for a target of this group.
ItemBound ==
  IF runs > 1 THEN RerunMaxItems
  ELSE IF Cardinality(targets) = 1 THEN MaxItems ELSE GroupMaxItems

\* Detail URLs the listing pages of this group can name.
Urls == IF Cardinality(targets) = 1 THEN AllUrls ELSE GroupUrls

\* Items target.parseList can return: a detail URL and a title, and (in a
\* one-target group) possibly a field of its own named pipelineId.
ListItems ==
  {[detailUrl |-> u, title |-> "T"] : u \in Urls}
    \cup IF Cardinality(targets) = 1
         THEN {[detailUrl |-> u, title |-> "T", pipelineId |-> ForeignId] : u \in Urls}
         ELSE {}

\* Values target.parseDetail can resolve to: the detail's content, and
\* possibly a field named pipelineId or (in a one-target group) detailUrl
\* of its own.
DetailValues ==
  {[content |-> "C"], [content |-> "C", pipelineId |-> ForeignId]}
    \cup IF Cardinality(targets) = 1
         THEN {[content |-> "C", detailUrl |-> u] : u \in Urls}
         ELSE {}


\* constructor: provider.maxConcurrency ??= 5
Constructor(providerMaxConcurrency) ==
  IF providerMaxConcurrency = Unset THEN DefaultMaxConcurrency
  ELSE providerMaxConcurrency[1]

\* What a run leaves for the next one to be compared with: what parseList,
\* the lookup, the detail fetches and the detail parses answered, which
\* items survived Dedupe, and what saveCrawledArticles was handed.
RunRecord ==
  [listParsed |-> listParsed, lookup |-> lookup, list |-> list,
   fetchSettled |-> fetchSettled, parseSettled |-> parseSettled,
   saved |-> saved]

\* Neither ensureHrBeforeH2 nor GenerateNewsletter.execute has been called.
TextIdle ==
  /\ markdown = <<>>
  /\ hrPc = "idle"
  /\ hrResult = <<>>

LlmIdle ==
  /\ titleContext = Unset
  /\ llmPc = "idle"
  /\ generateTextCalls = <<>>
  /\ totalUsage = Unset
  /\ executeResult = Unset

\* The chain getter is not followed: no groups, no entries.
ChainIdle ==
  /\ crawlingTargetGroups = <<>>
  /\ entries = <<>>

InitWith(n, ts, providerMaxConcurrency) ==
  /\ TextIdle
  /\ LlmIdle
  /\ ChainIdle
  /\ runs = n
  /\ run = 1
  /\ targets = ts
  /\ \E m \in providerMaxConcurrency : maxConcurrency = Constructor(m)
  /\ stopAfterAttempt \in 1..MaxAttempts
  /\ gpc = "idle"
  /\ total = 0
  /\ nextUuid = 1
  /\ pc = [t \in ts |-> "idle"]
  /\ attempt = [t \in ts |-> 0]
  /\ listFetched = [t \in ts |-> [status |-> "pending"]]
  /\ listPageHtml = [t \in ts |-> ""]
  /\ listParsed = [t \in ts |-> [status |-> "pending"]]
  /\ parsedList = [t \in ts |-> <<>>]
  /\ lookup = [t \in ts |-> [status |-> "pending"]]
  /\ list = [t \in ts |-> <<>>]
  /\ fetchSettled = [t \in ts |-> <<>>]
  /\ parseSettled = [t \in ts |-> <<>>]
  /\ detailFetchResult = [t \in ts |-> NoFetchResult]
  /\ detailParseResult = [t \in ts |-> NoParseResult]
  /\ processedArticles = [t \in ts |-> <<>>]
  /\ count = [t \in ts |-> 0]
  /\ errors = [t \in ts |-> <<>>]
  /\ saved = [t \in ts |-> <<>>]
  /\ firstRun = RunRecord

\* A group of one target, of a provider that leaves maxConcurrency unset.
Init == InitWith(1, {1}, {Unset}) /\ saveCalls = Unset /\ executions = Unset

\* The same group, which the caller runs twice.
RerunInit == InitWith(2, {1}, {Unset}) /\ saveCalls = Unset /\ executions = Unset

\* A group of several targets, of a provider that sets maxConcurrency or not.
GroupInit ==
  /\ InitWith(1, AllTargets,
              {Unset} \cup {Configured(k) : k \in 1..MaxConfiguredConcurrency})
  /\ saveCalls = Unset
  /\ executions = Unset


\* ------------------------------------------------- collaborator outcomes

\* A promise that has not settled / that rejected / that resolved to v.
Pending == [status |-> "pending"]
Rejected == [status |-> "rejected"]
Fulfilled(v) == [status |-> "fulfilled", value |-> v]

\* getHtmlFromUrl(logger, url, undefined, customFetch)
GetHtmlOutcomes(url) == {Rejected, Fulfilled([html |-> url])}

\* target.parseList(listPageHtml)
ParseListOutcomes == {Rejected} \cup {Fulfilled(l) : l \in SeqUpTo(ListItems, ItemBound)}

\* target.parseDetail(html)
ParseDetailOutcomes == {Rejected} \cup {Fulfilled(d) : d \in DetailValues}

\* provider.fetchExistingArticlesByUrls(urls): the detail URLs of the
\* articles it returns
LookupOutcomes == {Rejected} \cup {Fulfilled(s) : s \in SUBSET Urls}

\* provider.saveCrawledArticles(articles, meta): the count it reports, which
\* is the number of articles, or none of them, or one more
SaveOutcomes(articles) ==
  {Rejected} \cup {Fulfilled(n) : n \in {0, Len(articles), Len(articles) + 1}}

\* ------------------------------------------------------------ the stages
\* Each stage is an operator from its inputs and the outcomes of the
\* collaborator calls it makes to: whether it threw, the value it returned
\* and the logger.error events it emitted.

Returned(v, logged) == [threw |-> FALSE, value |-> v, logged |-> logged]
Threw == [threw |-> TRUE, value |-> <<>>, logged |-> <<>>]
\* throw new Error(message)
ThrewError(message) ==
  [threw |-> TRUE, value |-> <<>>, logged |-> <<>>, error |-> message]

\* Variant of FetchListPageHtml without the catch.
FetchListPageHtmlUncaught(outcome) ==
  IF outcome.status = "fulfilled" THEN Returned("HTML", <<>>) ELSE Threw

\* fetchListPageHtml: try { return await getHtmlFromUrl(..) } catch { log; return '' }
FetchListPageHtml(outcome) ==
  IF outcome.status = "fulfilled"
  THEN Returned("HTML", <<>>)
  ELSE Returned("", <<[event |-> "crawl.list.fetch.failed"]>>)

\* Variant of ParseListPageHtml without the test on listPageHtml.length.
ParseListPageHtmlUnguarded(html, outcome, uuid) ==
  IF outcome.status = "fulfilled"
  THEN Returned([i \in 1..Len(outcome.value) |->
                   Spread(outcome.value[i], [pipelineId |-> uuid + i - 1])],
                <<>>)
  ELSE Returned(<<>>, <<[event |-> "crawl.list.parse.failed"]>>)

\* Variant of ParseListPageHtml without the catch.
ParseListPageHtmlUncaught(html, outcome, uuid) ==
  IF html = ""
  THEN Returned(<<>>, <<>>)
  ELSE IF outcome.status = "fulfilled"
  THEN Returned([i \in 1..Len(outcome.value) |->
                   Spread(outcome.value[i], [pipelineId |-> uuid + i - 1])],
                <<>>)
  ELSE Threw

\* parseListPageHtml: empty content short-circuits; otherwise parseList and
\* { ...item, pipelineId: randomUUID() } per item; a throw is logged and
\* gives [].  uuid is the first value randomUUID() mints.
ParseListPageHtml(html, outcome, uuid) ==
  IF html = ""
  THEN Returned(<<>>, <<>>)
  ELSE IF outcome.status = "fulfilled"
  THEN Returned([i \in 1..Len(outcome.value) |->
                   Spread(outcome.value[i], [pipelineId |-> uuid + i - 1])],
                <<>>)
  ELSE Returned(<<>>, <<[event |-> "crawl.list.parse.failed"]>>)

\* Variant of Minted in which List Parse takes no new value from randomUUID.
MintedNone(html, outcome) == 0

\* Number of randomUUID() calls parseListPageHtml makes.
Minted(html, outcome) ==
  IF html # "" /\ outcome.status = "fulfilled" THEN Len(outcome.value) ELSE 0

\* Variant of DedupeListItems whose filter keeps the existing items.
DedupeListItemsKeepingExisting(parsed, outcome) ==
  IF outcome.status = "fulfilled"
  THEN Returned(SelectSeq(parsed, LAMBDA item : item.detailUrl \in outcome.value), <<>>)
  ELSE Threw

\* dedupeListItems: parsedList.filter((item) => !existingUrlSet.has(item.detailUrl));
\* a rejected lookup is not caught.
DedupeListItems(parsed, outcome) ==
  IF outcome.status = "fulfilled"
  THEN Returned(SelectSeq(parsed, LAMBDA item : item.detailUrl \notin outcome.value), <<>>)
  ELSE Threw

\* fetchDetailPagesHtml, settled.forEach((result, index) => ..) from index i on.
RECURSIVE FetchForEach(_, _, _, _)
FetchForEach(items, results, i, acc) ==
  IF i > Len(results) THEN acc
  ELSE FetchForEach(items, results, i + 1,
         IF results[i].status = "fulfilled"
         THEN [acc EXCEPT
                 !.value.detailPagesHtmlWithPipelineId =
                    Append(@, [pipelineId |-> items[i].pipelineId,
                               html |-> results[i].value]),
                 !.value.list = Append(@, items[i])]
         ELSE [acc EXCEPT
                 !.value.failedCount = @ + 1,
                 !.logged = Append(@, [event |-> "crawl.detail.fetch.failed",
                                       detailUrl |-> items[i].detailUrl])])

\* Variant of FetchDetailPagesHtml that rejects with the first rejected fetch,
\* as Promise.all would.
FetchDetailPagesHtmlFailFast(items, results) ==
  IF \E i \in 1..Len(results) : results[i].status = "rejected"
  THEN Threw
  ELSE FetchForEach(items, results, 1, Returned(NoFetchResult, <<>>))

\* Variant of FetchDetailPagesHtml that returns the list it was given, the
\* items whose fetch was rejected included.
FetchDetailPagesHtmlKeepingAll(items, results) ==
  LET result == FetchForEach(items, results, 1, Returned(NoFetchResult, <<>>))
  IN [result EXCEPT !.value.list = items]

\* fetchDetailPagesHtml once Promise.allSettled has resolved to results.
FetchDetailPagesHtml(items, results) ==
  FetchForEach(items, results, 1, Returned(NoFetchResult, <<>>))

\* parseDetailPagesHtml, settled.forEach((result, index) => ..) from index i on.
RECURSIVE ParseForEach(_, _, _, _, _)
ParseForEach(items, htmls, results, i, acc) ==
  IF i > Len(results) THEN acc
  ELSE LET htmlItem == htmls[i]
           found == htmlItem.pipelineId \in MapKeys(items)
       IN ParseForEach(items, htmls, results, i + 1,
            IF results[i].status = "fulfilled" /\ found
            THEN [acc EXCEPT
                    !.value.parsedDetails =
                       Append(@, Spread([pipelineId |-> htmlItem.pipelineId],
                                        results[i].value)),
                    !.value.list = Append(@, MapGet(items, htmlItem.pipelineId))]
            ELSE [acc EXCEPT
                    !.value.failedCount = @ + 1,
                    !.logged =
                       Append(@, [event |-> "crawl.detail.parse.failed",
                                  detailUrl |->
                                    IF found
                                    THEN MapGet(items, htmlItem.pipelineId).detailUrl
                                    ELSE "undefined",
                                  pipelineId |-> htmlItem.pipelineId,
                                  error |->
                                    IF results[i].status = "rejected"
                                    THEN "rejected"
                                    ELSE "Missing list item for parsed detail"])])

\* Variant of ParseDetailPagesHtml that throws when a payload has no list item.
ParseDetailPagesHtmlStrict(items, htmls, results) ==
  IF \E i \in 1..Len(htmls) : htmls[i].pipelineId \notin MapKeys(items)
  THEN Threw
  ELSE ParseForEach(items, htmls, results, 1, Returned(NoParseResult, <<>>))

\* Variant of ParseDetailPagesHtml that counts a payload without a list item
\* as failed but logs nothing for it.
ParseDetailPagesHtmlQuietOnMissing(items, htmls, results) ==
  LET result == ParseForEach(items, htmls, results, 1, Returned(NoParseResult, <<>>))
  IN [result EXCEPT
        !.logged = SelectSeq(@, LAMBDA ev :
                     ev.error # "Missing list item for parsed detail")]

\* parseDetailPagesHtml once Promise.allSettled has resolved to results.
ParseDetailPagesHtml(items, htmls, results) ==
  ParseForEach(items, htmls, results, 1, Returned(NoParseResult, <<>>))

\* Variant of MergeOne that forgets omit(listItem, ['pipelineId']).
MergeOneKeepingId(listItem, detail) ==
  Spread(listItem, Omit(detail, {"pipelineId"}))

\* Variant of MergeOne in which the list item's value wins where both the item
\* and the detail have a field.
MergeOneItemWins(listItem, detail) ==
  Spread(Omit(detail, {"pipelineId"}), Omit(listItem, {"pipelineId"}))

\* mergeParsedArticles: the record made of a list item and its detail
MergeOne(listItem, detail) ==
  Spread(Omit(listItem, {"pipelineId"}), Omit(detail, {"pipelineId"}))

\* Variant of MergeParsedArticles that leaves out the details the map does
\* not have instead of throwing.
MergeParsedArticlesSkipping(items, parsedDetails) ==
  LET matched == SelectSeq(parsedDetails,
                           LAMBDA d : d.pipelineId \in MapKeys(items))
  IN Returned([i \in 1..Len(matched) |->
                 MergeOne(MapGet(items, matched[i].pipelineId), matched[i])],
              <<>>)

\* mergeParsedArticles: parsedDetails.map(..), which throws 'No matching list
\* item for detail with pipelineId' at the first detail the map does not have.
MergeParsedArticles(items, parsedDetails) ==
  IF \E i \in 1..Len(parsedDetails) : parsedDetails[i].pipelineId \notin MapKeys(items)
  THEN ThrewError("No matching list item for detail with pipelineId")
  ELSE Returned([i \in 1..Len(parsedDetails) |->
                   MergeOne(MapGet(items, parsedDetails[i].pipelineId), parsedDetails[i])],
                <<>>)

\* saveArticles: return await this.provider.saveCrawledArticles(..); not caught.
\* Variant of SaveArticles that absorbs a rejection of the store and reports
\* nothing saved.
SaveArticlesAbsorbing(outcome) ==
  IF outcome.status = "fulfilled" THEN Returned(outcome.value, <<>>)
  ELSE Returned(0, <<[event |-> "crawl.save.failed"]>>)

SaveArticles(outcome) ==
  IF outcome.status = "fulfilled" THEN Returned(outcome.value, <<>>) ELSE Threw


\* ------------------------------------------------------------ the actions

\* executeWithLogging(config, fn), as the stages and the group run call it:
\* one execution is recorded under config.event, with the events it emits.
\* The start event is emitted before fn runs; when fn returns the done event
\* follows, and when fn throws the error event follows and the error is
\* thrown on.
ExecutionStarted(log, event) ==
  Append(log, [event |-> event, emitted |-> <<"start">>])
ExecutionEnded(log, threw) ==
  [log EXCEPT ![Len(log)].emitted = Append(@, IF threw THEN "error" ELSE "done")]

\* A stage of target t whose function awaits collaborators starts, and ends.
ExecutionStarts(t, event) ==
  executions' = IF executions = Unset THEN executions
                ELSE [executions EXCEPT !.targets[t] = ExecutionStarted(@, event)]
ExecutionEnds(t, threw) ==
  executions' = IF executions = Unset THEN executions
                ELSE [executions EXCEPT !.targets[t] = ExecutionEnded(@, threw)]

\* A stage of target t runs inside one executeWithLogging call.
ExecuteWithLogging(t, event, threw) ==
  executions' = IF executions = Unset THEN executions
                ELSE [executions EXCEPT !.targets[t] =
                        ExecutionEnded(ExecutionStarted(@, event), threw)]

\* The group run's own executeWithLogging call, event 'crawl.group'.
GroupExecutionStarts ==
  executions' = IF executions = Unset THEN executions
                ELSE [executions EXCEPT !.group = ExecutionStarted(@, "crawl.group")]
GroupExecutionEnds(threw) ==
  executions' = IF executions = Unset THEN executions
                ELSE [executions EXCEPT !.group = ExecutionEnded(@, threw)]

\* A stage returned or threw: its error events are logged, and the pipe goes
\* on to the next stage or leaves the error to the retry wrapper.
AfterStage(t, result, next) ==
  /\ pc' = [pc EXCEPT ![t] = IF result.threw THEN "threw" ELSE next]
  /\ errors' = [errors EXCEPT ![t] = @ \o result.logged]

\* The pipe's wiring: what each stage is called with.
\* Variant of ListParseInput in which the targets of a group share the page.
ListParseInputShared(t) == listPageHtml[CHOOSE u \in targets : TRUE]
ListParseInput(t) == listPageHtml[t]
DedupeInput(t) == parsedList[t]
\* Variant of DetailFetchInput that passes the list as parsed, not as deduped.
DetailFetchInputNotDeduped(t) == parsedList[t]
DetailFetchInput(t) == list[t]
DetailParseInput(t) == detailFetchResult[t]
\* Variant of MergeInput that hands Merge the parsed details last first, as
\* if they were collected in the order the parses complete.
MergeInputLastFirst(t) ==
  [detailParseResult[t] EXCEPT
     !.parsedDetails =
        [i \in 1..Len(@) |-> @[Len(@) + 1 - i]]]
MergeInput(t) == detailParseResult[t]
SaveInput(t) == processedArticles[t]

\* Stage 1, List Fetch.
ListFetch(t) ==
  /\ pc[t] = "listFetch"
  /\ \E outcome \in GetHtmlOutcomes("list") :
       LET result == FetchListPageHtml(outcome) IN
         /\ listFetched' = [listFetched EXCEPT ![t] = outcome]
         /\ listPageHtml' = [listPageHtml EXCEPT ![t] = result.value]
         /\ AfterStage(t, result, "listParse")
         /\ ExecuteWithLogging(t, "crawl.list.fetch", result.threw)
  /\ UNCHANGED <<utils, config, run, firstRun, saveCalls, group, nextUuid, attempt, listParsed, parsedList,
                 lookup, list, fetchSettled, parseSettled, detailFetchResult,
                 detailParseResult, processedArticles, count, saved>>

\* Stage 2, List Parse.  parseList is not called on empty content.
ListParse(t) ==
  /\ pc[t] = "listParse"
  /\ \E outcome \in IF ListParseInput(t) = "" THEN {Pending} ELSE ParseListOutcomes :
       LET result == ParseListPageHtml(ListParseInput(t), outcome, nextUuid) IN
         /\ listParsed' = [listParsed EXCEPT ![t] = outcome]
         /\ parsedList' = [parsedList EXCEPT ![t] = result.value]
         /\ nextUuid' = nextUuid + Minted(ListParseInput(t), outcome)
         /\ AfterStage(t, result, "dedupe")
         /\ ExecuteWithLogging(t, "crawl.list.parse", result.threw)
  /\ UNCHANGED <<utils, config, run, firstRun, saveCalls, group, attempt, listFetched, listPageHtml, lookup, list,
                 fetchSettled, parseSettled, detailFetchResult,
                 detailParseResult, processedArticles, count, saved>>

\* Variant of Dedupe that does not wait for List Parse.
DedupeEarly(t) ==
  /\ pc[t] \in {"listParse", "dedupe"}
  /\ \E outcome \in LookupOutcomes :
       LET result == DedupeListItems(DedupeInput(t), outcome) IN
         /\ lookup' = [lookup EXCEPT ![t] = outcome]
         /\ list' = [list EXCEPT ![t] = result.value]
         /\ AfterStage(t, result, "detailFetch")
         /\ ExecuteWithLogging(t, "crawl.list.dedupe", result.threw)
  /\ UNCHANGED <<utils, config, run, firstRun, saveCalls, group, nextUuid, attempt, listFetched,
                 listPageHtml, listParsed, parsedList, fetchSettled,
                 parseSettled, detailFetchResult, detailParseResult,
                 processedArticles, count, saved>>

\* Stage 3, Dedupe.
Dedupe(t) ==
  /\ pc[t] = "dedupe"
  /\ \E outcome \in LookupOutcomes :
       LET result == DedupeListItems(DedupeInput(t), outcome) IN
         /\ lookup' = [lookup EXCEPT ![t] = outcome]
         /\ list' = [list EXCEPT ![t] = result.value]
         /\ AfterStage(t, result, "detailFetch")
         /\ ExecuteWithLogging(t, "crawl.list.dedupe", result.threw)
  /\ UNCHANGED <<utils, config, run, firstRun, saveCalls, group, nextUuid, attempt, listFetched, listPageHtml,
                 listParsed, parsedList, fetchSettled, parseSettled,
                 detailFetchResult, detailParseResult, processedArticles, count,
                 saved>>

\* Stage 4, Detail Fetch: list.map((data) => getHtmlFromUrl(..)) starts one
\* fetch per item.
DetailFetchStart(t) ==
  /\ pc[t] = "detailFetch"
  /\ fetchSettled' = [fetchSettled EXCEPT ![t] =
       [i \in 1..Len(DetailFetchInput(t)) |-> Pending]]
  /\ pc' = [pc EXCEPT ![t] = "detailFetchAwait"]
  /\ ExecutionStarts(t, "crawl.detail.fetch")
  /\ UNCHANGED <<utils, config, run, firstRun, saveCalls, group, nextUuid, attempt, listFetched, listPageHtml,
                 listParsed, parsedList, lookup, list, parseSettled,
                 detailFetchResult, detailParseResult, processedArticles, count,
                 errors, saved>>

\* One of the detail fetches settles.
DetailFetchSettle(t) ==
  /\ pc[t] = "detailFetchAwait"
  /\ \E i \in 1..Len(fetchSettled[t]) :
       /\ fetchSettled[t][i].status = "pending"
       /\ \E outcome \in GetHtmlOutcomes(DetailFetchInput(t)[i].detailUrl) :
            fetchSettled' = [fetchSettled EXCEPT ![t][i] = outcome]
  /\ UNCHANGED <<utils, config, history, group, nextUuid, pc, attempt, listFetched, listPageHtml,
                 listParsed, parsedList, lookup, list, parseSettled,
                 detailFetchResult, detailParseResult, processedArticles, count,
                 errors, saved>>

\* Variant of AllSettled that also resolves at the first rejection, as the
\* rejection of Promise.all does.
AllSettledOrOneRejected(promises) ==
  \/ \A i \in 1..Len(promises) : promises[i].status # "pending"
  \/ \E i \in 1..Len(promises) : promises[i].status = "rejected"

\* Variant of AllSettled that does not wait for the promises.
AllSettledUnawaited(promises) == TRUE

\* await Promise.allSettled(promises) resolves once every promise has settled.
AllSettled(promises) ==
  \A i \in 1..Len(promises) : promises[i].status # "pending"

\* Stage 4, Detail Fetch, after the await.
DetailFetchJoin(t) ==
  /\ pc[t] = "detailFetchAwait"
  /\ AllSettled(fetchSettled[t])
  /\ LET result == FetchDetailPagesHtml(DetailFetchInput(t), fetchSettled[t]) IN
       /\ detailFetchResult' = [detailFetchResult EXCEPT ![t] = result.value]
       /\ AfterStage(t, result, "detailParse")
       /\ ExecutionEnds(t, result.threw)
  /\ UNCHANGED <<utils, config, run, firstRun, saveCalls, group, nextUuid, attempt, listFetched, listPageHtml,
                 listParsed, parsedList, lookup, list, fetchSettled,
                 parseSettled, detailParseResult, processedArticles, count,
                 saved>>

\* Variant of DetailParseStart that calls parseDetail once per item handed to
\* Detail Fetch, the items whose fetch was rejected included.
DetailParseStartPerItem(t) ==
  /\ pc[t] = "detailParse"
  /\ parseSettled' = [parseSettled EXCEPT ![t] =
       [i \in 1..Len(fetchSettled[t]) |-> Pending]]
  /\ pc' = [pc EXCEPT ![t] = "detailParseAwait"]
  /\ ExecutionStarts(t, "crawl.detail.parse")
  /\ UNCHANGED <<utils, config, run, firstRun, saveCalls, group, nextUuid, attempt, listFetched, listPageHtml,
                 listParsed, parsedList, lookup, list, fetchSettled,
                 detailFetchResult, detailParseResult, processedArticles, count,
                 errors, saved>>

\* Stage 5, Detail Parse: one target.parseDetail(html) per fetched payload.
DetailParseStart(t) ==
  /\ pc[t] = "detailParse"
  /\ parseSettled' = [parseSettled EXCEPT ![t] =
       [i \in 1..Len(DetailParseInput(t).detailPagesHtmlWithPipelineId) |-> Pending]]
  /\ pc' = [pc EXCEPT ![t] = "detailParseAwait"]
  /\ ExecutionStarts(t, "crawl.detail.parse")
  /\ UNCHANGED <<utils, config, run, firstRun, saveCalls, group, nextUuid, attempt, listFetched, listPageHtml,
                 listParsed, parsedList, lookup, list, fetchSettled,
                 detailFetchResult, detailParseResult, processedArticles, count,
                 errors, saved>>

\* One of the detail parses settles.
DetailParseSettle(t) ==
  /\ pc[t] = "detailParseAwait"
  /\ \E i \in 1..Len(parseSettled[t]) :
       /\ parseSettled[t][i].status = "pending"
       /\ \E outcome \in ParseDetailOutcomes :
            parseSettled' = [parseSettled EXCEPT ![t][i] = outcome]
  /\ UNCHANGED <<utils, config, history, group, nextUuid, pc, attempt, listFetched, listPageHtml,
                 listParsed, parsedList, lookup, list, fetchSettled,
                 detailFetchResult, detailParseResult, processedArticles, count,
                 errors, saved>>

\* Stage 5, Detail Parse, after the await.
DetailParseJoin(t) ==
  /\ pc[t] = "detailParseAwait"
  /\ AllSettled(parseSettled[t])
  /\ LET result == ParseDetailPagesHtml(DetailParseInput(t).list,
                     DetailParseInput(t).detailPagesHtmlWithPipelineId,
                     parseSettled[t]) IN
       /\ detailParseResult' = [detailParseResult EXCEPT ![t] = result.value]
       /\ AfterStage(t, result, "merge")
       /\ ExecutionEnds(t, result.threw)
  /\ UNCHANGED <<utils, config, run, firstRun, saveCalls, group, nextUuid, attempt, listFetched, listPageHtml,
                 listParsed, parsedList, lookup, list, fetchSettled,
                 parseSettled, detailFetchResult, processedArticles, count,
                 saved>>

\* Variant of Merge that runs outside the logging executor.
MergeUnlogged(t) ==
  /\ pc[t] = "merge"
  /\ LET result == MergeParsedArticles(MergeInput(t).list,
                                       MergeInput(t).parsedDetails) IN
       /\ processedArticles' = [processedArticles EXCEPT ![t] = result.value]
       /\ AfterStage(t, result, "save")
  /\ UNCHANGED <<utils, config, history, group, nextUuid, attempt, listFetched, listPageHtml,
                 listParsed, parsedList, lookup, list, fetchSettled,
                 parseSettled, detailFetchResult, detailParseResult, count,
                 saved>>

\* Stage 6, Merge.
Merge(t) ==
  /\ pc[t] = "merge"
  /\ LET result == MergeParsedArticles(MergeInput(t).list,
                                       MergeInput(t).parsedDetails) IN
       /\ processedArticles' = [processedArticles EXCEPT ![t] = result.value]
       /\ AfterStage(t, result, "save")
       /\ ExecuteWithLogging(t, "crawl.merge", result.threw)
  /\ UNCHANGED <<utils, config, run, firstRun, saveCalls, group, nextUuid, attempt, listFetched, listPageHtml,
                 listParsed, parsedList, lookup, list, fetchSettled,
                 parseSettled, detailFetchResult, detailParseResult, count,
                 saved>>

\* Variant of Save that does not call the store when there is nothing to
\* save.
SaveSkippingEmpty(t) ==
  /\ pc[t] = "save"
  /\ IF SaveInput(t) = <<>>
     THEN /\ count' = [count EXCEPT ![t] = 0]
          /\ pc' = [pc EXCEPT ![t] = "done"]
          /\ ExecuteWithLogging(t, "crawl.save", FALSE)
          /\ UNCHANGED <<saved, saveCalls, errors>>
     ELSE /\ \E outcome \in SaveOutcomes(SaveInput(t)) :
               LET result == SaveArticles(outcome) IN
                 /\ saved' = [saved EXCEPT ![t] =
                      Append(@, [articles |-> SaveInput(t), outcome |-> outcome])]
                 /\ count' = [count EXCEPT ![t] =
                      IF result.threw THEN @ ELSE result.value]
                 /\ AfterStage(t, result, "done")
                 /\ ExecuteWithLogging(t, "crawl.save", result.threw)
          /\ saveCalls' = IF saveCalls = Unset THEN saveCalls
                          ELSE [saveCalls EXCEPT ![t] = Append(@, SaveInput(t))]
  /\ UNCHANGED <<utils, config, run, firstRun, group, nextUuid, attempt,
                 listFetched, listPageHtml,
                 listParsed, parsedList, lookup, list, fetchSettled,
                 parseSettled, detailFetchResult, detailParseResult,
                 processedArticles>>

\* Stage 7, Save: the merged articles are handed to provider.saveCrawledArticles.
Save(t) ==
  /\ pc[t] = "save"
  /\ \E outcome \in SaveOutcomes(SaveInput(t)) :
       LET result == SaveArticles(outcome) IN
         /\ saved' = [saved EXCEPT ![t] =
              Append(@, [articles |-> SaveInput(t), outcome |-> outcome])]
         /\ count' = [count EXCEPT ![t] = IF result.threw THEN @ ELSE result.value]
         /\ AfterStage(t, result, "done")
         /\ ExecuteWithLogging(t, "crawl.save", result.threw)
  /\ saveCalls' = IF saveCalls = Unset THEN saveCalls
                  ELSE [saveCalls EXCEPT ![t] = Append(@, SaveInput(t))]
  /\ UNCHANGED <<utils, config, run, firstRun, group, nextUuid, attempt,
                 listFetched, listPageHtml,
                 listParsed, parsedList, lookup, list, fetchSettled,
                 parseSettled, detailFetchResult, detailParseResult,
                 processedArticles>>

\* Variant of RetryAllowed that grants one attempt more than the budget.
RetryAllowedOnceMore(attemptNumber, budget) == attemptNumber <= budget

\* withRetry({ stopAfterAttempt }): whether a failed attempt is followed by
\* another one.
RetryAllowed(attemptNumber, budget) == attemptNumber < budget

\* Variant of Retry that resumes a thrown attempt after its listing fetch
\* and List Parse, keeping the items they produced.
RetryResuming(t) ==
  /\ pc[t] = "threw"
  /\ IF RetryAllowed(attempt[t], stopAfterAttempt)
     THEN /\ pc' = [pc EXCEPT ![t] = "dedupe"]
          /\ attempt' = [attempt EXCEPT ![t] = @ + 1]
          /\ UNCHANGED <<listFetched, listPageHtml, listParsed, parsedList,
                         lookup, list, fetchSettled, parseSettled,
                         detailFetchResult, detailParseResult,
                         processedArticles, errors, saved>>
     ELSE /\ pc' = [pc EXCEPT ![t] = "failed"]
          /\ UNCHANGED <<attempt, listFetched, listPageHtml, listParsed,
                         parsedList, lookup, list, fetchSettled, parseSettled,
                         detailFetchResult, detailParseResult, processedArticles,
                         errors, saved>>
  /\ UNCHANGED <<utils, config, history, group, nextUuid, count>>

\* Variant of Retry that runs again every target of the group that has
\* started, not only the one whose attempt threw.
RetryWholeBatch(t) ==
  /\ pc[t] = "threw"
  /\ IF RetryAllowed(attempt[t], stopAfterAttempt)
     THEN LET again == {u \in targets : pc[u] \notin {"idle", "queued", "failed"}}
              Reset(f, v) == [u \in targets |-> IF u \in again THEN v ELSE f[u]]
          IN  /\ pc' = Reset(pc, "listFetch")
              /\ attempt' = [u \in targets |->
                               IF u = t THEN attempt[u] + 1 ELSE attempt[u]]
              /\ listFetched' = Reset(listFetched, Pending)
              /\ listPageHtml' = Reset(listPageHtml, "")
              /\ listParsed' = Reset(listParsed, Pending)
              /\ parsedList' = Reset(parsedList, <<>>)
              /\ lookup' = Reset(lookup, Pending)
              /\ list' = Reset(list, <<>>)
              /\ fetchSettled' = Reset(fetchSettled, <<>>)
              /\ parseSettled' = Reset(parseSettled, <<>>)
              /\ detailFetchResult' = Reset(detailFetchResult, NoFetchResult)
              /\ detailParseResult' = Reset(detailParseResult, NoParseResult)
              /\ processedArticles' = Reset(processedArticles, <<>>)
              /\ errors' = Reset(errors, <<>>)
              /\ saved' = Reset(saved, <<>>)
     ELSE /\ pc' = [pc EXCEPT ![t] = "failed"]
          /\ UNCHANGED <<attempt, listFetched, listPageHtml, listParsed,
                         parsedList, lookup, list, fetchSettled, parseSettled,
                         detailFetchResult, detailParseResult, processedArticles,
                         errors, saved>>
  /\ UNCHANGED <<utils, config, history, group, nextUuid, count>>

\* withRetry: an attempt threw.  Within the budget the whole sequence is run
\* again from List Fetch on a fresh input; otherwise the error leaves the
\* target's pipeline.
Retry(t) ==
  /\ pc[t] = "threw"
  /\ IF RetryAllowed(attempt[t], stopAfterAttempt)
     THEN /\ pc' = [pc EXCEPT ![t] = "listFetch"]
          /\ attempt' = [attempt EXCEPT ![t] = @ + 1]
          /\ listFetched' = [listFetched EXCEPT ![t] = Pending]
          /\ listPageHtml' = [listPageHtml EXCEPT ![t] = ""]
          /\ listParsed' = [listParsed EXCEPT ![t] = Pending]
          /\ parsedList' = [parsedList EXCEPT ![t] = <<>>]
          /\ lookup' = [lookup EXCEPT ![t] = Pending]
          /\ list' = [list EXCEPT ![t] = <<>>]
          /\ fetchSettled' = [fetchSettled EXCEPT ![t] = <<>>]
          /\ parseSettled' = [parseSettled EXCEPT ![t] = <<>>]
          /\ detailFetchResult' = [detailFetchResult EXCEPT ![t] = NoFetchResult]
          /\ detailParseResult' = [detailParseResult EXCEPT ![t] = NoParseResult]
          /\ processedArticles' = [processedArticles EXCEPT ![t] = <<>>]
          /\ errors' = [errors EXCEPT ![t] = <<>>]
          /\ saved' = [saved EXCEPT ![t] = <<>>]
     ELSE /\ pc' = [pc EXCEPT ![t] = "failed"]
          /\ UNCHANGED <<attempt, listFetched, listPageHtml, listParsed,
                         parsedList, lookup, list, fetchSettled, parseSettled,
                         detailFetchResult, detailParseResult, processedArticles,
                         errors, saved>>
  /\ UNCHANGED <<utils, config, history, group, nextUuid, count>>

\* Targets whose pipeline is executing.
Running == {t \in targets : pc[t] \notin {"idle", "queued", "done", "failed"}}

\* executeGroupPipeline is called: chain.batch(group.targets.map(..), ..)
\* queues one pipeline per target.
ExecuteGroupPipeline ==
  /\ gpc = "idle"
  /\ gpc' = "running"
  /\ GroupExecutionStarts
  /\ pc' = [t \in targets |-> "queued"]
  /\ UNCHANGED <<utils, config, run, firstRun, saveCalls, total, nextUuid, attempt, stageData>>

\* Variant of StartTarget that starts every queued pipeline at once.
StartTargetUncapped(t) ==
  /\ pc[t] = "queued"
  /\ pc' = [pc EXCEPT ![t] = "listFetch"]
  /\ attempt' = [attempt EXCEPT ![t] = 1]
  /\ UNCHANGED <<utils, config, history, group, nextUuid, stageData>>

\* batch starts a queued pipeline when fewer than maxConcurrency are running.
StartTarget(t) ==
  /\ pc[t] = "queued"
  /\ Cardinality(Running) < maxConcurrency
  /\ pc' = [pc EXCEPT ![t] = "listFetch"]
  /\ attempt' = [attempt EXCEPT ![t] = 1]
  /\ UNCHANGED <<utils, config, history, group, nextUuid, stageData>>

\* Variant of SumCounts that returns the count of one result only.
SumCountsOfOne(counts, ts) ==
  IF ts = {} THEN 0 ELSE counts[CHOOSE x \in ts : TRUE]

\* results.reduce((sum, result) => sum + result.count, 0)
RECURSIVE SumCounts(_, _)
SumCounts(counts, ts) ==
  IF ts = {} THEN 0
  ELSE LET t == CHOOSE x \in ts : TRUE IN counts[t] + SumCounts(counts, ts \ {t})

\* Variant of GroupReturn that returns the sum of the targets that completed
\* once every pipeline has resolved or rejected.
GroupReturnPartial ==
  /\ gpc = "running"
  /\ \A t \in targets : pc[t] \in {"done", "failed"}
  /\ gpc' = "returned"
  /\ GroupExecutionEnds(FALSE)
  /\ total' = SumCounts(count, {t \in targets : pc[t] = "done"})
  /\ UNCHANGED <<utils, config, run, firstRun, saveCalls, nextUuid, pc, attempt, stageData>>

\* Every pipeline resolved: executeGroupPipeline returns the sum.
GroupReturn ==
  /\ gpc = "running"
  /\ \A t \in targets : pc[t] = "done"
  /\ gpc' = "returned"
  /\ GroupExecutionEnds(FALSE)
  /\ total' = SumCounts(count, targets)
  /\ UNCHANGED <<utils, config, run, firstRun, saveCalls, nextUuid, pc, attempt, stageData>>

\* A pipeline rejected after its last attempt: executeGroupPipeline throws.
GroupThrow ==
  /\ gpc = "running"
  /\ \E t \in targets : pc[t] = "failed"
  /\ gpc' = "threw"
  /\ GroupExecutionEnds(TRUE)
  /\ UNCHANGED <<utils, config, run, firstRun, saveCalls, total, nextUuid, pc, attempt, stageData>>

Next ==
  \/ ExecuteGroupPipeline
  \/ \E t \in targets : StartTarget(t)
  \/ \E t \in targets : ListFetch(t)
  \/ \E t \in targets : ListParse(t)
  \/ \E t \in targets : Dedupe(t)
  \/ \E t \in targets : DetailFetchStart(t)
  \/ \E t \in targets : DetailFetchSettle(t)
  \/ \E t \in targets : DetailFetchJoin(t)
  \/ \E t \in targets : DetailParseStart(t)
  \/ \E t \in targets : DetailParseSettle(t)
  \/ \E t \in targets : DetailParseJoin(t)
  \/ \E t \in targets : Merge(t)
  \/ \E t \in targets : Save(t)
  \/ \E t \in targets : Retry(t)
  \/ GroupReturn
  \/ GroupThrow

\* The caller runs executeGroupPipeline again on the group once a run has
\* returned: a new run starts from nothing but the ids randomUUID has used.
RunAgain ==
  /\ gpc = "returned"
  /\ run < runs
  /\ run' = run + 1
  /\ firstRun' = RunRecord
  /\ gpc' = "idle"
  /\ total' = 0
  /\ pc' = [t \in targets |-> "idle"]
  /\ attempt' = [t \in targets |-> 0]
  /\ listFetched' = [t \in targets |-> Pending]
  /\ listPageHtml' = [t \in targets |-> ""]
  /\ listParsed' = [t \in targets |-> Pending]
  /\ parsedList' = [t \in targets |-> <<>>]
  /\ lookup' = [t \in targets |-> Pending]
  /\ list' = [t \in targets |-> <<>>]
  /\ fetchSettled' = [t \in targets |-> <<>>]
  /\ parseSettled' = [t \in targets |-> <<>>]
  /\ detailFetchResult' = [t \in targets |-> NoFetchResult]
  /\ detailParseResult' = [t \in targets |-> NoParseResult]
  /\ processedArticles' = [t \in targets |-> <<>>]
  /\ count' = [t \in targets |-> 0]
  /\ errors' = [t \in targets |-> <<>>]
  /\ saved' = [t \in targets |-> <<>>]
  /\ UNCHANGED <<utils, config, nextUuid, saveCalls, executions>>

RerunNext ==
  \/ Next
  \/ RunAgain

\* parseDetailPagesHtml called on its own, as its unit test does, with a
\* list and payloads whose correlation ids the caller chose.
DirectItems ==
  {[pipelineId |-> p, detailUrl |-> "u1", title |-> "T"] : p \in 1..DirectMaxIds}
DirectPayloads ==
  {[pipelineId |-> p, html |-> [html |-> "u1"]] : p \in 1..DirectMaxIds}

ParseDetailInit ==
  /\ TextIdle
  /\ LlmIdle
  /\ ChainIdle
  /\ saveCalls = Unset
  /\ executions = Unset
  /\ runs = 1
  /\ run = 1
  /\ targets = {1}
  /\ maxConcurrency = Constructor(Unset)
  /\ stopAfterAttempt = 1
  /\ gpc = "running"
  /\ total = 0
  /\ nextUuid = 1
  /\ pc = [t \in targets |-> "detailParse"]
  /\ attempt = [t \in targets |-> 1]
  /\ listFetched = [t \in targets |-> Pending]
  /\ listPageHtml = [t \in targets |-> ""]
  /\ listParsed = [t \in targets |-> Pending]
  /\ parsedList = [t \in targets |-> <<>>]
  /\ lookup = [t \in targets |-> Pending]
  /\ list = [t \in targets |-> <<>>]
  /\ fetchSettled = [t \in targets |-> <<>>]
  /\ parseSettled = [t \in targets |-> <<>>]
  /\ \E l \in SeqUpTo(DirectItems, DirectMaxLen) :
       \E h \in SeqUpTo(DirectPayloads, DirectMaxLen) :
         detailFetchResult =
           [t \in targets |->
              [list |-> l, detailPagesHtmlWithPipelineId |-> h, failedCount |-> 0]]
  /\ detailParseResult = [t \in targets |-> NoParseResult]
  /\ processedArticles = [t \in targets |-> <<>>]
  /\ count = [t \in targets |-> 0]
  /\ errors = [t \in targets |-> <<>>]
  /\ saved = [t \in targets |-> <<>>]
  /\ firstRun = RunRecord

ParseDetailNext ==
  \/ \E t \in targets : DetailParseStart(t)
  \/ \E t \in targets : DetailParseSettle(t)
  \/ \E t \in targets : DetailParseJoin(t)

ParseDetailSpec == ParseDetailInit /\ [][ParseDetailNext]_vars

\* parseListPageHtml called on the content of a listing page, empty or not,
\* that a fetch resolved to or that stands for a failed fetch; Dedupe follows.
ParseListInit ==
  /\ TextIdle
  /\ LlmIdle
  /\ ChainIdle
  /\ saveCalls = Unset
  /\ executions = Unset
  /\ runs = 1
  /\ run = 1
  /\ targets = {1}
  /\ maxConcurrency = Constructor(Unset)
  /\ stopAfterAttempt = 1
  /\ gpc = "running"
  /\ total = 0
  /\ nextUuid = 1
  /\ pc = [t \in targets |-> "listParse"]
  /\ attempt = [t \in targets |-> 1]
  /\ \E html \in {"", "HTML"} :
       /\ listPageHtml = [t \in targets |-> html]
       /\ \/ listFetched = [t \in targets |-> Fulfilled([html |-> html])]
          \/ /\ html = ""
             /\ listFetched = [t \in targets |-> Rejected]
  /\ listParsed = [t \in targets |-> Pending]
  /\ parsedList = [t \in targets |-> <<>>]
  /\ lookup = [t \in targets |-> Pending]
  /\ list = [t \in targets |-> <<>>]
  /\ fetchSettled = [t \in targets |-> <<>>]
  /\ parseSettled = [t \in targets |-> <<>>]
  /\ detailFetchResult = [t \in targets |-> NoFetchResult]
  /\ detailParseResult = [t \in targets |-> NoParseResult]
  /\ processedArticles = [t \in targets |-> <<>>]
  /\ count = [t \in targets |-> 0]
  /\ errors = [t \in targets |-> <<>>]
  /\ saved = [t \in targets |-> <<>>]
  /\ firstRun = RunRecord

ParseListNext ==
  \/ \E t \in targets : ListParse(t)
  \/ \E t \in targets : Dedupe(t)

ParseListSpec == ParseListInit /\ [][ParseListNext]_vars

\* One group of one target.
Spec == Init /\ [][Next]_vars

\* One group of one target, run twice.
RerunSpec == RerunInit /\ [][RerunNext]_vars

\* One group of NumTargets targets.
GroupSpec == GroupInit /\ [][Next]_vars

\* One group of one target whose store records the calls it receives.
RecordedInit ==
  /\ InitWith(1, {1}, {Unset})
  /\ saveCalls = [t \in {1} |-> <<>>]
  /\ executions = Unset

RecordedSpec == RecordedInit /\ [][Next]_vars


\* ------------------------------------------------------------ the claims

\* The articles the attempt in progress handed to saveCrawledArticles.
SaveCalled(t) == saved[t] # <<>>
Handed(t) == IF SaveCalled(t) THEN saved[t][1].articles ELSE <<>>

\* The attempt in progress has ended (it returned, or it threw).
AttemptEnded(t) == pc[t] \in {"done", "threw", "failed"}

\* The elements of a finite set of numbers, in increasing order.
RECURSIVE Ascending(_)
Ascending(S) ==
  IF S = {} THEN <<>>
  ELSE LET m == CHOOSE x \in S : \A y \in S : x <= y
       IN <<m>> \o Ascending(S \ {m})

\* The indexes of the promises that were fulfilled, in increasing order.
FulfilledIdx(promises) ==
  Ascending({i \in 1..Len(promises) : promises[i].status = "fulfilled"})

\* C1: the number of records handed to Save never exceeds the number of
\* items that survived Dedupe in the same attempt.
C1_SaveAtMostDedupeSurvivors ==
  \A t \in targets : \A k \in 1..Len(saved[t]) :
    Len(saved[t][k].articles) <= Len(list[t])

\* C1 witness: Save was handed at least one record, and fewer records than
\* items survived Dedupe.
C1_Witness ==
  \E t \in targets :
    /\ SaveCalled(t)
    /\ Len(Handed(t)) >= 1
    /\ Len(Handed(t)) < Len(list[t])

\* C3: no record handed to saveCrawledArticles has a field pipelineId.
C3_NoPipelineIdSaved ==
  \A t \in targets : \A k \in 1..Len(saved[t]) :
    \A j \in 1..Len(saved[t][k].articles) :
      "pipelineId" \notin DOMAIN saved[t][k].articles[j]

\* C3 witness: a record was handed to Save whose list item came out of
\* parseList with a pipelineId field of its own.
C3_Witness ==
  \E t \in targets :
    /\ SaveCalled(t)
    /\ Len(Handed(t)) >= 1
    /\ listParsed[t].status = "fulfilled"
    /\ \A i \in 1..Len(listParsed[t].value) :
         "pipelineId" \in DOMAIN listParsed[t].value[i]


\* target.parseList returned items of pairwise distinct detail URLs.
DistinctUrls(t) ==
  listParsed[t].status = "fulfilled" =>
    \A i, j \in 1..Len(listParsed[t].value) :
      listParsed[t].value[i].detailUrl = listParsed[t].value[j].detailUrl => i = j

\* The detail fetch of the i-th item that survived Dedupe was fulfilled.
FetchOk(t, i) ==
  /\ Len(fetchSettled[t]) = Len(list[t])
  /\ fetchSettled[t][i].status = "fulfilled"

\* The place of the i-th survivor's payload among the fetched payloads.
PayloadOf(t, i) ==
  Cardinality({j \in 1..i : fetchSettled[t][j].status = "fulfilled"})

\* The detail fetch and the detail parse of the i-th survivor were fulfilled.
ParseOk(t, i) ==
  /\ FetchOk(t, i)
  /\ Len(parseSettled[t]) >= PayloadOf(t, i)
  /\ parseSettled[t][PayloadOf(t, i)].status = "fulfilled"

\* The number of records of detail URL u among the records handed to Save.
HandedFor(t, u) ==
  Cardinality({k \in 1..Len(Handed(t)) : Handed(t)[k].detailUrl = u})

\* C2: when an attempt has ended, the records it handed to Save hold exactly
\* one record of the detail URL of every Dedupe survivor whose detail fetch
\* and detail parse were fulfilled (parseList having returned distinct URLs).
C2_ExactlyOneRecordPerSurvivor ==
  \A t \in targets :
    (AttemptEnded(t) /\ DistinctUrls(t)) =>
      \A i \in 1..Len(list[t]) :
        ParseOk(t, i) => HandedFor(t, list[t][i].detailUrl) = 1


\* The record of a list item and the value its detail parse resolved to:
\* the fields of both but pipelineId, the value's field where both have one.
RecordOf(item, value) ==
  [f \in (DOMAIN item \cup DOMAIN value) \ {"pipelineId"} |->
     IF f \in DOMAIN value THEN value[f] ELSE item[f]]

\* The Dedupe survivors whose detail fetch and detail parse were fulfilled.
Kept(t) == Ascending({i \in 1..Len(list[t]) : ParseOk(t, i)})

\* Their records, in the order of the survivors.
KeptRecords(t) ==
  [k \in 1..Len(Kept(t)) |->
     RecordOf(list[t][Kept(t)[k]], parseSettled[t][PayloadOf(t, Kept(t)[k])].value)]

\* The number of promises that were rejected.
RejectedCount(promises) ==
  Cardinality({i \in 1..Len(promises) : promises[i].status = "rejected"})

\* The number of events ev logged in the attempt in progress.
Logged(t, ev) ==
  Cardinality({k \in 1..Len(errors[t]) : errors[t][k].event = ev})

\* The number of them that name the detail URL u.
LoggedFor(t, ev, u) ==
  Cardinality({k \in 1..Len(errors[t]) :
                 errors[t][k].event = ev /\ errors[t][k].detailUrl = u})

\* Detail Fetch has returned in the attempt in progress.
DetailFetchReturned(t) ==
  pc[t] \in {"detailParse", "detailParseAwait", "merge", "save", "done"}

\* Detail Parse has returned in the attempt in progress.
DetailParseReturned(t) == pc[t] \in {"merge", "save", "done"}

\* The attempt got past Dedupe and has ended.
EndedPastDedupe(t) == AttemptEnded(t) /\ lookup[t].status = "fulfilled"

\* Every detail parse of the attempt was fulfilled.
EveryParseFulfilled(t) ==
  /\ Len(parseSettled[t]) = Len(FulfilledIdx(fetchSettled[t]))
  /\ \A k \in 1..Len(parseSettled[t]) : parseSettled[t][k].status = "fulfilled"

\* C4: Detail Fetch does not throw whichever fetches are rejected; it logs
\* one 'crawl.detail.fetch.failed' per rejected fetch; and when every parse
\* of the fetched payloads is fulfilled, the attempt hands to Save exactly
\* the records of the survivors whose fetch was fulfilled, and a store that
\* reports what it was handed makes the target count that many.
C4_DetailFetchAbsorbs ==
  \A t \in targets :
    /\ (DetailFetchReturned(t) \/ EndedPastDedupe(t)) =>
         /\ Logged(t, "crawl.detail.fetch.failed") = RejectedCount(fetchSettled[t])
         /\ \A u \in Urls :
              LoggedFor(t, "crawl.detail.fetch.failed", u) =
                Cardinality({i \in 1..Len(list[t]) :
                               /\ list[t][i].detailUrl = u
                               /\ fetchSettled[t][i].status = "rejected"})
         /\ Len(detailFetchResult[t].list) = Len(FulfilledIdx(fetchSettled[t]))
    /\ (EndedPastDedupe(t) /\ EveryParseFulfilled(t)) =>
         /\ SaveCalled(t)
         /\ Handed(t) = KeptRecords(t)
         /\ Len(Handed(t)) = Len(list[t]) - RejectedCount(fetchSettled[t])
         /\ (pc[t] = "done" /\ saved[t][1].outcome.value = Len(Handed(t))) =>
              count[t] = Len(list[t]) - RejectedCount(fetchSettled[t])

\* C5: Detail Parse does not throw whichever parses are rejected; it logs
\* one 'crawl.detail.parse.failed' per rejected parse; and the attempt hands
\* to Save exactly the records of the fetched items whose parse was
\* fulfilled.
C5_DetailParseAbsorbs ==
  \A t \in targets :
    /\ (DetailParseReturned(t) \/ EndedPastDedupe(t)) =>
         /\ Logged(t, "crawl.detail.parse.failed") = RejectedCount(parseSettled[t])
         /\ \A u \in Urls :
              LoggedFor(t, "crawl.detail.parse.failed", u) =
                Cardinality({i \in 1..Len(list[t]) :
                               /\ list[t][i].detailUrl = u
                               /\ FetchOk(t, i)
                               /\ parseSettled[t][PayloadOf(t, i)].status = "rejected"})
    /\ EndedPastDedupe(t) =>
         /\ SaveCalled(t)
         /\ Handed(t) = KeptRecords(t)


\* The parsed items the lookup did not report, in the order of the input.
NotExisting(t) ==
  LET idx == Ascending({i \in 1..Len(parsedList[t]) :
                          parsedList[t][i].detailUrl \notin lookup[t].value})
  IN [k \in 1..Len(idx) |-> parsedList[t][idx[k]]]

\* C6: when the lookup returns, Dedupe returns exactly the parsed items
\* whose detail URL is not in the set it returned, in the order of the
\* input; each detail fetch is of such an item, each payload handed to Detail
\* Parse is the page of such an item, and each record handed to Save is the
\* record of such an item.
C6_DedupeDropsExisting ==
  \A t \in targets :
    lookup[t].status = "fulfilled" =>
      /\ list[t] = NotExisting(t)
      /\ Len(fetchSettled[t]) \in {0, Len(list[t])}
      /\ \A i \in 1..Len(fetchSettled[t]) :
           fetchSettled[t][i].status = "fulfilled" =>
             /\ fetchSettled[t][i].value.html = list[t][i].detailUrl
             /\ fetchSettled[t][i].value.html \notin lookup[t].value
      /\ \A k \in 1..Len(detailFetchResult[t].detailPagesHtmlWithPipelineId) :
           detailFetchResult[t].detailPagesHtmlWithPipelineId[k].html.html
             \notin lookup[t].value
      /\ Len(parseSettled[t]) \in {0, Len(FulfilledIdx(fetchSettled[t]))}
      /\ \A k \in 1..Len(Handed(t)) :
           \E i \in 1..Len(list[t]) :
             /\ ParseOk(t, i)
             /\ list[t][i].detailUrl \notin lookup[t].value
             /\ Handed(t)[k] =
                  RecordOf(list[t][i], parseSettled[t][PayloadOf(t, i)].value)

\* C6 witness: of two parsed items the lookup reported one as existing, and
\* the attempt saved exactly the record of the other.
C6_Witness ==
  \E t \in targets :
    /\ lookup[t].status = "fulfilled"
    /\ Len(parsedList[t]) = 2
    /\ Len(list[t]) = 1
    /\ pc[t] = "done"
    /\ Len(Handed(t)) = 1
    /\ count[t] = 1


\* The attempt in progress threw, and neither the lookup nor the store did.
ThrewOfItself(t) ==
  /\ pc[t] \in {"threw", "failed"}
  /\ lookup[t].status # "rejected"
  /\ \A k \in 1..Len(saved[t]) : saved[t][k].outcome.status # "rejected"

\* The attempt in progress has no candidate: nothing is parsed, nothing
\* survives, no detail is fetched or parsed, and Save is handed no record.
ZeroCandidates(t) ==
  /\ parsedList[t] = <<>>
  /\ list[t] = <<>>
  /\ fetchSettled[t] = <<>>
  /\ parseSettled[t] = <<>>
  /\ \A k \in 1..Len(saved[t]) : saved[t][k].articles = <<>>
  /\ pc[t] = "done" => Len(saved[t]) = 1

\* C7: when the listing fetch of an attempt is rejected, List Fetch logs one
\* 'crawl.list.fetch.failed' and yields empty content; parseList is not
\* called, the attempt goes through the later stages with zero candidates,
\* Save is called with an empty list, and the attempt does not throw unless
\* the lookup or the store throws.
C7_ListFetchFailureDegrades ==
  \A t \in targets :
    listFetched[t].status = "rejected" =>
      /\ Logged(t, "crawl.list.fetch.failed") = 1
      /\ listPageHtml[t] = ""
      /\ listParsed[t].status = "pending"
      /\ ZeroCandidates(t)
      /\ ~ThrewOfItself(t)

\* C7 witness: the listing fetch was rejected in the first attempt, and the
\* target completed in that attempt after Save was called with no record.
C7_Witness ==
  \E t \in targets :
    /\ listFetched[t].status = "rejected"
    /\ pc[t] = "done"
    /\ attempt[t] = 1
    /\ Len(saved[t]) = 1
    /\ saved[t][1].articles = <<>>
    /\ lookup[t].status = "fulfilled"

\* C8: when parseList is rejected, List Parse logs one
\* 'crawl.list.parse.failed' and returns an empty list; the attempt goes on
\* with zero candidates and does not throw unless the lookup or the store
\* throws, Save is called with an empty list, the target's count is what
\* Save returned, and it is the total of a group of that one target.
C8_ListParseFailureDegrades ==
  \A t \in targets :
    listParsed[t].status = "rejected" =>
      /\ Logged(t, "crawl.list.parse.failed") = 1
      /\ ZeroCandidates(t)
      /\ ~ThrewOfItself(t)
      /\ pc[t] = "done" => count[t] = saved[t][1].outcome.value
      /\ (pc[t] = "done" /\ saved[t][1].outcome.value = Len(saved[t][1].articles)) =>
           count[t] = 0
      /\ (gpc = "returned" /\ targets = {t}) => total = saved[t][1].outcome.value

\* C8 witness: parseList was rejected, Save was called with no record and
\* returned 0, and the group returned a total of 0.
C8_Witness ==
  \E t \in targets :
    /\ listParsed[t].status = "rejected"
    /\ pc[t] = "done"
    /\ saved[t][1].articles = <<>>
    /\ saved[t][1].outcome.value = 0
    /\ gpc = "returned"
    /\ total = 0


\* The data of the attempt in progress of a target.
AttemptData(t) ==
  <<listFetched[t], listPageHtml[t], listParsed[t], parsedList[t], lookup[t],
    list[t], fetchSettled[t], parseSettled[t], detailFetchResult[t],
    detailParseResult[t], processedArticles[t], errors[t], saved[t]>>

\* The data of an attempt that has not run a stage yet.
FreshAttemptData ==
  <<Pending, "", Pending, <<>>, Pending, <<>>, <<>>, <<>>, NoFetchResult,
    NoParseResult, <<>>, <<>>, <<>>>>

\* A target leaves a thrown attempt: either for a new attempt that starts
\* at List Fetch on fresh data and is within the budget, or, the budget being
\* used up, for good.
RetryStep(t) ==
  (pc[t] = "threw" /\ pc'[t] # "threw") =>
    \/ /\ pc'[t] = "listFetch"
       /\ attempt'[t] = attempt[t] + 1
       /\ attempt'[t] <= stopAfterAttempt
       /\ AttemptData(t)' = FreshAttemptData
    \/ /\ pc'[t] = "failed"
       /\ attempt'[t] = attempt[t]
       /\ attempt[t] = stopAfterAttempt

\* C10: an attempt that threw is followed by a new attempt of the whole
\* sequence from List Fetch; a target never makes more than stopAfterAttempt
\* attempts; and executeGroupPipeline throws only when a target has thrown
\* in its last attempt.
C10_BoundedRetryFromListFetch ==
  /\ [](\A t \in targets :
          /\ attempt[t] <= stopAfterAttempt
          /\ pc[t] = "failed" => attempt[t] = stopAfterAttempt)
  /\ [](gpc = "threw" =>
          \E t \in targets : pc[t] = "failed" /\ attempt[t] = stopAfterAttempt)
  /\ [][\A t \in targets : RetryStep(t)]_vars

\* C10 witness: a target threw in both attempts of a budget of two, the
\* second of which got as far as Save, and the group threw.
C10_Witness ==
  \E t \in targets :
    /\ stopAfterAttempt = 2
    /\ attempt[t] = 2
    /\ pc[t] = "failed"
    /\ SaveCalled(t)
    /\ gpc = "threw"


\* Everything the run of one target has produced.
TargetState(t) == <<pc[t], attempt[t], count[t], AttemptData(t)>>

\* What parseList returned are the parsed items, correlation ids aside.
ParsedAsReturned(t) ==
  /\ Len(parsedList[t]) = Len(listParsed[t].value)
  /\ \A i \in 1..Len(parsedList[t]) :
       Omit(parsedList[t][i], {"pipelineId"}) =
         Omit(listParsed[t].value[i], {"pipelineId"})

\* What a target's attempt parses, keeps and saves follows from the outcomes
\* of its own collaborator calls: parseList is called exactly when its own
\* listing fetch was fulfilled, the parsed list is what that call returned,
\* the survivors are those its own lookup did not report, and the records
\* handed to Save are those of its own fetched and parsed survivors.
OwnOutcomesOnly(t) ==
  /\ pc[t] \in {"dedupe", "detailFetch", "detailFetchAwait", "detailParse",
                "detailParseAwait", "merge", "save", "done"} =>
       (listParsed[t].status = "pending") = (listFetched[t].status = "rejected")
  /\ listParsed[t].status = "fulfilled" => ParsedAsReturned(t)
  /\ listParsed[t].status # "fulfilled" => parsedList[t] = <<>>
  /\ lookup[t].status = "fulfilled" => list[t] = NotExisting(t)
  /\ SaveCalled(t) => Handed(t) = KeptRecords(t)

\* The step is a List Fetch of target t whose fetch is rejected.
ListFetchFails(t) ==
  /\ pc[t] = "listFetch"
  /\ listFetched'[t].status = "rejected"

C11_FailedTargetFailsGroup ==
  /\ []((\E t \in targets : pc[t] = "failed") => (gpc # "returned" /\ total = 0))
  /\ [](gpc = "threw" => total = 0)
  /\ [][gpc = "threw" => gpc' = "threw"]_vars

\* C11 witness: one target of the group failed after its last attempt while
\* another completed with a saved record, and the group threw.
C11_Witness ==
  \E t \in targets : \E u \in targets \ {t} :
    /\ pc[t] = "failed"
    /\ attempt[t] = stopAfterAttempt
    /\ pc[u] = "done"
    /\ count[u] >= 1
    /\ gpc = "threw"


\* C12: at no time do more than maxConcurrency pipelines of the group
\* execute, maxConcurrency being 5 for a provider that leaves it unset and
\* the provider's value otherwise; and when executeGroupPipeline has
\* returned, every target of the group has run and has finished.
C12_ConcurrencyCapAndJoin ==
  /\ Cardinality(Running) <= maxConcurrency
  /\ Constructor(Unset) = 5
  /\ \A k \in 1..MaxConfiguredConcurrency : Constructor(Configured(k)) = k
  /\ gpc = "returned" =>
       \A t \in targets : pc[t] = "done" /\ attempt[t] >= 1 /\ SaveCalled(t)

\* C12 witness: with maxConcurrency 1 one pipeline executes while another
\* target of the group waits for its turn.
C12_Witness ==
  \E t \in targets : \E u \in targets \ {t} :
    /\ maxConcurrency = 1
    /\ pc[t] = "save"
    /\ pc[u] = "queued"
    /\ Cardinality(Running) = maxConcurrency


\* The value saveCrawledArticles returned in the attempt in progress.
SaveReturned(t) == saved[t][Len(saved[t])].outcome.value

\* The sum of those values over a set of targets.
RECURSIVE SaveReturnedSum(_)
SaveReturnedSum(ts) ==
  IF ts = {} THEN 0
  ELSE LET t == CHOOSE x \in ts : TRUE
       IN SaveReturned(t) + SaveReturnedSum(ts \ {t})

\* C13: the value a group run returns is the sum over all its targets of
\* the value saveCrawledArticles returned in the target's successful
\* attempt, be that value the number of records submitted or not.
C13_TotalIsSumOfSaveCounts ==
  gpc = "returned" => total = SaveReturnedSum(targets)

\* C13 witness: a returned group run in which the store reported for one
\* target a number that is not the number of records submitted, and a
\* positive number for every target.
C13_Witness ==
  /\ gpc = "returned"
  /\ Cardinality(targets) >= 2
  /\ \A t \in targets : SaveReturned(t) >= 1
  /\ \E t \in targets : SaveReturned(t) # Len(Handed(t))
  /\ total >= 3


\* Every promise of a started, non-empty fan-out was rejected.
EveryOneRejected(promises) ==
  /\ promises # <<>>
  /\ \A i \in 1..Len(promises) : promises[i].status = "rejected"

\* All the items of the attempt in progress failed at one stage.
AllItemsFailed(t) ==
  \/ listFetched[t].status = "rejected"
  \/ listParsed[t].status = "rejected"
  \/ EveryOneRejected(fetchSettled[t])
  \/ EveryOneRejected(parseSettled[t])

\* Merge was handed a parsed detail whose correlation id no item carries.
MergeMismatch(t) ==
  \E k \in 1..Len(detailParseResult[t].parsedDetails) :
    \A i \in 1..Len(detailParseResult[t].list) :
      detailParseResult[t].list[i].pipelineId #
        detailParseResult[t].parsedDetails[k].pipelineId

\* C14: an attempt all of whose items fail at one stage does not throw for
\* it: it logs the failures, hands Save no record, and completes once Save
\* has been called with the empty list; an attempt throws only when the
\* lookup, Merge or the store throws, and the group run throws only when a
\* target has thrown in the last attempt of its budget.
C14_AllItemsFailingStillCompletes ==
  /\ \A t \in targets :
       /\ AllItemsFailed(t) =>
            /\ DetailParseReturned(t) => errors[t] # <<>>
            /\ \A k \in 1..Len(saved[t]) : saved[t][k].articles = <<>>
            /\ pc[t] = "done" => Len(saved[t]) = 1
            /\ ~ThrewOfItself(t)
       /\ pc[t] \in {"threw", "failed"} =>
            \/ lookup[t].status = "rejected"
            \/ MergeMismatch(t)
            \/ SaveCalled(t) /\ saved[t][Len(saved[t])].outcome.status = "rejected"
  /\ gpc = "threw" =>
       \E t \in targets : pc[t] = "failed" /\ attempt[t] = stopAfterAttempt

\* C14 witness: every detail fetch of two surviving items was rejected, and
\* the target completed in its first attempt with an empty Save call and
\* the group returned 0.
C14_Witness ==
  \E t \in targets :
    /\ Len(list[t]) = 2
    /\ EveryOneRejected(fetchSettled[t])
    /\ Len(fetchSettled[t]) = 2
    /\ attempt[t] = 1
    /\ pc[t] = "done"
    /\ saved[t][1].articles = <<>>
    /\ Logged(t, "crawl.detail.fetch.failed") = 2
    /\ gpc = "returned"
    /\ total = 0


\* The detail URLs of the records the run before this one saved for t.
SavedBefore(t) ==
  UNION {{firstRun.saved[t][k].articles[j].detailUrl :
            j \in 1..Len(firstRun.saved[t][k].articles)} :
         k \in {k \in 1..Len(firstRun.saved[t]) :
                  firstRun.saved[t][k].outcome.status = "fulfilled"}}

\* How the source answered for the i-th of the items: its detail fetch as it
\* settled and, when that was fulfilled, the parse of its payload.
SourceAnswer(items, fetched, parsed, i) ==
  IF Len(fetched) # Len(items) THEN <<"fetch", Pending>>
  ELSE IF fetched[i].status # "fulfilled" THEN <<"fetch", fetched[i]>>
  ELSE LET k == Cardinality({j \in 1..i : fetched[j].status = "fulfilled"})
       IN IF k > Len(parsed) THEN <<"parse", Pending>> ELSE <<"parse", parsed[k]>>

\* The source content is what it was in the run before: parseList returns
\* the same items, and an item of a detail URL that run met has the fetch and
\* parse outcomes it had then.
SameSource(t) ==
  /\ listParsed[t] = firstRun.listParsed[t]
  /\ \A i \in 1..Len(list[t]) : \A j \in 1..Len(firstRun.list[t]) :
       list[t][i].detailUrl = firstRun.list[t][j].detailUrl =>
         SourceAnswer(list[t], fetchSettled[t], parseSettled[t], i) =
           SourceAnswer(firstRun.list[t], firstRun.fetchSettled[t],
                        firstRun.parseSettled[t], j)

\* The lookup of this run reports, of the URLs it is asked about, those the
\* lookup of the run before reported and those of the records that run saved.
LookupReflectsSaves(t) ==
  /\ lookup[t].status = "fulfilled"
  /\ \A i \in 1..Len(parsedList[t]) :
       parsedList[t][i].detailUrl \in firstRun.lookup[t].value \cup SavedBefore(t) =>
         parsedList[t][i].detailUrl \in lookup[t].value

\* C15: in the second of two runs of the group on unchanged source content,
\* with a lookup that reports every record the first run saved, every
\* saveCrawledArticles call is handed the empty list.
C15_SecondRunSavesNothing ==
  \A t \in targets :
    (run = 2 /\ SameSource(t) /\ LookupReflectsSaves(t)) =>
      \A k \in 1..Len(saved[t]) : saved[t][k].articles = <<>>


\* What Merge does on the input it is about to be called with.
MergeResult(t) ==
  MergeParsedArticles(MergeInput(t).list, MergeInput(t).parsedDetails)

\* C16: when one of the parsed details handed to Merge carries a correlation
\* id that no item of the list handed to it carries, Merge throws the error
\* 'No matching list item for detail with pipelineId' and returns nothing,
\* not even the records of the details that do match: the attempt ends
\* there, with no merged record and no Save call.
C16_MergeThrowsOnMismatch ==
  /\ [](\A t \in targets :
          (pc[t] = "merge" /\ MergeMismatch(t)) =>
            /\ MergeResult(t).threw
            /\ MergeResult(t).error = "No matching list item for detail with pipelineId"
            /\ MergeResult(t).value = <<>>)
  /\ [](\A t \in targets :
          MergeMismatch(t) =>
            /\ pc[t] \notin {"save", "done"}
            /\ processedArticles[t] = <<>>
            /\ ~SaveCalled(t))
  /\ [][\A t \in targets :
          (pc[t] = "merge" /\ MergeMismatch(t) /\ pc'[t] # pc[t]) =>
            pc'[t] = "threw"]_vars

\* C16 witness: Merge was handed two parsed details, one that matches an
\* item and one that matches none, and the attempt ended with a throw and
\* no record.
C16_Witness ==
  \E t \in targets :
    /\ pc[t] = "threw"
    /\ Len(detailParseResult[t].parsedDetails) = 2
    /\ MergeMismatch(t)
    /\ \E k \in 1..2 :
         detailParseResult[t].parsedDetails[k].pipelineId
           \in MapKeys(detailParseResult[t].list)
    /\ processedArticles[t] = <<>>
    /\ ~SaveCalled(t)


\* The payloads handed to Detail Parse whose correlation id no item of the
\* list handed to it carries.
Unmatched(t) ==
  {k \in 1..Len(detailFetchResult[t].detailPagesHtmlWithPipelineId) :
     \A i \in 1..Len(detailFetchResult[t].list) :
       detailFetchResult[t].list[i].pipelineId #
         detailFetchResult[t].detailPagesHtmlWithPipelineId[k].pipelineId}

\* The 'crawl.detail.parse.failed' events of correlation id p and reason r.
ParseFailedLogged(t, p, r) ==
  Cardinality({k \in 1..Len(errors[t]) :
                 /\ errors[t][k].event = "crawl.detail.parse.failed"
                 /\ errors[t][k].pipelineId = p
                 /\ errors[t][k].error = r})

\* The unmatched payloads of correlation id p whose parse settled as status.
UnmatchedSettled(t, p, status) ==
  Cardinality({k \in Unmatched(t) :
                 /\ detailFetchResult[t].detailPagesHtmlWithPipelineId[k].pipelineId = p
                 /\ parseSettled[t][k].status = status})

\* Detail Parse returned: unmatched payloads did not make it throw, each is
\* counted as failed, and none gave a parsed detail or a surviving item.
UnmatchedDropped(t) ==
  /\ pc[t] # "threw"
  /\ pc[t] = "merge" =>
       /\ detailParseResult[t].failedCount =
            Cardinality(Unmatched(t) \cup
                        {k \in 1..Len(parseSettled[t]) :
                           parseSettled[t][k].status = "rejected"})
       /\ Len(detailParseResult[t].parsedDetails) =
            Len(parseSettled[t]) - detailParseResult[t].failedCount
       /\ Len(detailParseResult[t].list) = Len(detailParseResult[t].parsedDetails)
       /\ \A k \in Unmatched(t) :
            /\ \A j \in 1..Len(detailParseResult[t].parsedDetails) :
                 detailParseResult[t].parsedDetails[j].pipelineId #
                   detailFetchResult[t].detailPagesHtmlWithPipelineId[k].pipelineId
            /\ \A j \in 1..Len(detailParseResult[t].list) :
                 detailParseResult[t].list[j].pipelineId #
                   detailFetchResult[t].detailPagesHtmlWithPipelineId[k].pipelineId

\* C17 as stated: Detail Parse returns normally, drops and counts every
\* unmatched payload, and logs every one of them as 'crawl.detail.parse.failed'
\* with the reason 'Missing list item for parsed detail'.
C17_UnmatchedAlwaysLoggedAsMissing ==
  \A t \in targets :
    /\ UnmatchedDropped(t)
    /\ pc[t] = "merge" =>
         \A p \in 1..DirectMaxIds :
           ParseFailedLogged(t, p, "Missing list item for parsed detail") =
             UnmatchedSettled(t, p, "fulfilled") + UnmatchedSettled(t, p, "rejected")

\* C17, amended: Detail Parse returns normally, drops and counts every
\* unmatched payload, and logs every one of them as 'crawl.detail.parse.failed':
\* with the reason 'Missing list item for parsed detail' when its parse was
\* fulfilled, with the parse error when its parse was rejected.
C17_UnmatchedPayloadDropped ==
  \A t \in targets :
    /\ UnmatchedDropped(t)
    /\ pc[t] = "merge" =>
         /\ Logged(t, "crawl.detail.parse.failed") = detailParseResult[t].failedCount
         /\ \A p \in 1..DirectMaxIds :
              /\ ParseFailedLogged(t, p, "Missing list item for parsed detail") =
                   UnmatchedSettled(t, p, "fulfilled")
              /\ ParseFailedLogged(t, p, "rejected") >=
                   UnmatchedSettled(t, p, "rejected")

\* C17 witness: Detail Parse returned on two payloads whose parses were both
\* fulfilled, one of a list item and one of no list item: one parsed detail,
\* one failure, logged as a missing list item.
C17_Witness ==
  \E t \in targets :
    /\ pc[t] = "merge"
    /\ Len(parseSettled[t]) = 2
    /\ \A k \in 1..2 : parseSettled[t][k].status = "fulfilled"
    /\ Cardinality(Unmatched(t)) = 1
    /\ Len(detailParseResult[t].parsedDetails) = 1
    /\ detailParseResult[t].failedCount = 1
    /\ \E p \in 1..DirectMaxIds :
         ParseFailedLogged(t, p, "Missing list item for parsed detail") = 1


\* The steps of an attempt, in the order of the pipe.
StageOrder ==
  <<"listFetch", "listParse", "dedupe", "detailFetch", "detailFetchAwait",
    "detailParse", "detailParseAwait", "merge", "save", "done">>

\* The place of a step in that order.
StagePlace(p) == CHOOSE k \in 1..Len(StageOrder) : StageOrder[k] = p

\* The attempt of t moves on: to the step that follows, or to a throw.
NextStageOnly(t) ==
  (pc'[t] # pc[t] /\ pc[t] \in {StageOrder[k] : k \in 1..Len(StageOrder) - 1}) =>
    \/ pc'[t] = StageOrder[StagePlace(pc[t]) + 1]
    \/ pc'[t] = "threw"

\* What the collaborators have been asked so far fits the order: parseList
\* only on a fetched listing, the lookup only after List Parse returned, a
\* detail fetch only after Dedupe returned, a detail parse only after every
\* detail fetch settled, Save only with what Merge returned after every
\* detail parse settled.
CalledInOrder(t) ==
  /\ listParsed[t].status # "pending" => listFetched[t].status = "fulfilled"
  /\ lookup[t].status # "pending" =>
       /\ listFetched[t].status # "pending"
       /\ listFetched[t].status = "fulfilled" => listParsed[t].status # "pending"
  /\ pc[t] \in {"listFetch", "listParse"} => lookup[t].status = "pending"
  /\ fetchSettled[t] # <<>> => lookup[t].status = "fulfilled"
  /\ parseSettled[t] # <<>> =>
       /\ Len(fetchSettled[t]) = Len(list[t])
       /\ AllSettled(fetchSettled[t])
  /\ pc[t] \in {"listFetch", "listParse", "dedupe", "detailFetch", "detailFetchAwait"} =>
       parseSettled[t] = <<>>
  /\ SaveCalled(t) =>
       /\ pc[t] \in {"done", "threw", "failed"}
       /\ lookup[t].status = "fulfilled"
       /\ AllSettled(fetchSettled[t])
       /\ Len(parseSettled[t]) = Len(FulfilledIdx(fetchSettled[t]))
       /\ AllSettled(parseSettled[t])
       /\ Handed(t) = processedArticles[t]
       /\ ~MergeMismatch(t)

NonePending(promises) ==
  \A i \in 1..Len(promises) : promises[i].status \in {"fulfilled", "rejected"}

\* From one state to the next, at most one operation changes, and it goes
\* from pending to settled; no other operation is touched.
OneSettles(before, after) ==
  /\ Len(after) = Len(before)
  /\ \A i \in 1..Len(before) :
       after[i] # before[i] =>
         /\ before[i].status = "pending"
         /\ after[i].status \in {"fulfilled", "rejected"}
         /\ \A j \in 1..Len(before) : j # i => after[j] = before[j]

\* C19: Detail Fetch starts one fetch per item handed to it and Detail
\* Parse one parse per payload handed to it; while the stage waits, an
\* operation that settles, rejected or not, leaves the others as they are
\* and the stage waiting; and the stage has returned only when none of its
\* operations is pending.
C19_FanOutJoinsAll ==
  /\ [](\A t \in targets :
          /\ pc[t] = "detailFetchAwait" => Len(fetchSettled[t]) = Len(list[t])
          /\ pc[t] = "detailParseAwait" =>
               Len(parseSettled[t]) =
                 Len(detailFetchResult[t].detailPagesHtmlWithPipelineId)
          /\ (DetailFetchReturned(t) \/ EndedPastDedupe(t)) =>
               /\ Len(fetchSettled[t]) = Len(list[t])
               /\ NonePending(fetchSettled[t])
               /\ Len(detailFetchResult[t].list) + detailFetchResult[t].failedCount
                    = Len(list[t])
          /\ (DetailParseReturned(t) \/ EndedPastDedupe(t)) =>
               /\ Len(parseSettled[t]) = Len(FulfilledIdx(fetchSettled[t]))
               /\ NonePending(parseSettled[t])
               /\ Len(detailParseResult[t].list) + detailParseResult[t].failedCount
                    = Len(parseSettled[t]))
  /\ [][\A t \in targets :
          /\ (pc[t] = "detailFetchAwait" /\ fetchSettled'[t] # fetchSettled[t]) =>
               /\ OneSettles(fetchSettled[t], fetchSettled'[t])
               /\ pc'[t] = "detailFetchAwait"
          /\ (pc[t] = "detailParseAwait" /\ parseSettled'[t] # parseSettled[t]) =>
               /\ OneSettles(parseSettled[t], parseSettled'[t])
               /\ pc'[t] = "detailParseAwait"
          /\ (pc[t] = "detailFetchAwait" /\ pc'[t] # pc[t]) =>
               NonePending(fetchSettled[t])
          /\ (pc[t] = "detailParseAwait" /\ pc'[t] # pc[t]) =>
               NonePending(parseSettled[t])]_vars

\* C19 witness: of two detail parses the first was rejected and the second
\* was fulfilled all the same, and Detail Parse returned one parsed detail
\* and one failure.
C19_Witness ==
  \E t \in targets :
    /\ pc[t] = "merge"
    /\ Len(fetchSettled[t]) = 2
    /\ Len(parseSettled[t]) = 2
    /\ parseSettled[t][1].status = "rejected"
    /\ parseSettled[t][2].status = "fulfilled"
    /\ Len(detailParseResult[t].parsedDetails) = 1
    /\ detailParseResult[t].failedCount = 1


\* The place among the Dedupe survivors of the item a handed record is of.
SurvivorOf(t, k) == Kept(t)[k]

\* C20: the k-th record handed to Save is the record of the k-th of the
\* Dedupe survivors whose fetch and parse were fulfilled, the survivors
\* taken in the order Dedupe returned them: the records follow the order of
\* the survivors, in whatever order the fetches and parses settled.
C20_SavedInSurvivorOrder ==
  \A t \in targets :
    SaveCalled(t) =>
      /\ Len(Handed(t)) = Len(Kept(t))
      /\ \A k \in 1..Len(Handed(t)) :
           /\ Handed(t)[k] =
                RecordOf(list[t][SurvivorOf(t, k)],
                         parseSettled[t][PayloadOf(t, SurvivorOf(t, k))].value)
           /\ \A j \in 1..Len(Handed(t)) :
                j < k => SurvivorOf(t, j) < SurvivorOf(t, k)

\* C20 witness: two survivors of different detail URLs were both fetched
\* and parsed, and Save was handed their two records, the first survivor's
\* first.
C20_Witness ==
  \E t \in targets :
    /\ SaveCalled(t)
    /\ Len(list[t]) = 2
    /\ list[t][1].detailUrl # list[t][2].detailUrl
    /\ Len(Handed(t)) = 2
    /\ Handed(t)[1].detailUrl = list[t][1].detailUrl
    /\ Handed(t)[2].detailUrl = list[t][2].detailUrl
    /\ Handed(t)[1] # Handed(t)[2]


\* ------------------------------------------------------- utils/string.ts

\* A string is the sequence of its characters.  The lines ensureHrBeforeH2
\* is tried on:
EmptyLine == <<>>
SpaceLine == <<" ">>
HrLine == <<"-", "-", "-">>
HrIndentedLine == <<" ", "-", "-", "-", " ">>
BrLine == <<"<", "b", "r", ">">>
BrUpperLine == <<"<", "B", "R", " ", "/", ">">>
H2Line == <<"#", "#", " ", "A">>
H2IndentedLine == <<" ", "#", "#", " ", "A">>
H2NoSpaceLine == <<"#", "#", "A">>
TextLine == <<"A">>
HrLines ==
  {EmptyLine, SpaceLine, HrLine, HrIndentedLine, BrLine, BrUpperLine,
   H2Line, H2IndentedLine, H2NoSpaceLine, TextLine}

\* How many lines the argument of ensureHrBeforeH2 has at most.
MaxLines == 3

Whitespace == {" ", "\t"}

RECURSIVE TrimStart(_)
TrimStart(s) ==
  IF s # <<>> /\ Head(s) \in Whitespace THEN TrimStart(Tail(s)) ELSE s

RECURSIVE TrimEnd(_)
TrimEnd(s) ==
  IF s # <<>> /\ s[Len(s)] \in Whitespace
  THEN TrimEnd(SubSeq(s, 1, Len(s) - 1))
  ELSE s

\* String.prototype.trim
Trim(s) == TrimEnd(TrimStart(s))

\* String.prototype.startsWith
StartsWith(s, prefix) ==
  /\ Len(s) >= Len(prefix)
  /\ SubSeq(s, 1, Len(prefix)) = prefix

\* markdown.split('\n')
RECURSIVE Split(_)
Split(s) ==
  IF \A i \in 1..Len(s) : s[i] # "\n"
  THEN <<s>>
  ELSE LET k == CHOOSE i \in 1..Len(s) :
                  s[i] = "\n" /\ \A j \in 1..(i - 1) : s[j] # "\n"
       IN  <<SubSeq(s, 1, k - 1)>> \o Split(SubSeq(s, k + 1, Len(s)))

\* result.join('\n')
RECURSIVE Join(_)
Join(lines) ==
  IF lines = <<>> THEN <<>>
  ELSE IF Len(lines) = 1 THEN lines[1]
  ELSE lines[1] \o <<"\n">> \o Join(Tail(lines))

\* Variant of isBrTag that takes no line for a <br> tag.
isBrTagNever(value) == FALSE

\* /^<br\s*\/?>$/i.test(value)
isBrTag(value) ==
  /\ Len(value) >= 4
  /\ value[1] = "<"
  /\ value[2] \in {"b", "B"}
  /\ value[3] \in {"r", "R"}
  /\ value[Len(value)] = ">"
  /\ LET inner == SubSeq(value, 4, Len(value) - 1)
         spaces == IF inner # <<>> /\ inner[Len(inner)] = "/"
                   THEN SubSeq(inner, 1, Len(inner) - 1)
                   ELSE inner
     IN  \A i \in 1..Len(spaces) : spaces[i] \in Whitespace

\* Variant of AlreadyHasHr that never finds a '---' line.
AlreadyHasHrNever(result, i) == FALSE

\* The inner loop of ensureHrBeforeH2, from index i of result downwards:
\* whether the nearest line that is neither blank nor a <br> tag is '---'.
RECURSIVE AlreadyHasHr(_, _)
AlreadyHasHr(result, i) ==
  IF i < 1 THEN FALSE
  ELSE LET prev == Trim(result[i])
       IN  IF prev # <<>> /\ ~isBrTag(prev)
           THEN prev = HrLine
           ELSE AlreadyHasHr(result, i - 1)

\* One pass of the loop over the lines; acc holds result and
\* hasContentBefore.
HrLoopBody(acc, line) ==
  LET trimmed == Trim(line)
  IN  IF StartsWith(line, <<"#", "#", " ">>) /\ acc.hasContentBefore
      THEN [result |->
              Append(IF AlreadyHasHr(acc.result, Len(acc.result))
                     THEN acc.result
                     ELSE Append(acc.result, HrLine),
                     line),
            hasContentBefore |-> acc.hasContentBefore]
      ELSE [result |-> Append(acc.result, line),
            hasContentBefore |->
              \/ acc.hasContentBefore
              \/ trimmed # <<>> /\ trimmed # HrLine /\ ~isBrTag(trimmed)]

RECURSIVE HrLoop(_, _)
HrLoop(acc, lines) ==
  IF lines = <<>> THEN acc
  ELSE HrLoop(HrLoopBody(acc, Head(lines)), Tail(lines))

ensureHrBeforeH2(md) ==
  Join(HrLoop([result |-> <<>>, hasContentBefore |-> FALSE], Split(md)).result)

\* No group is being crawled.
CrawlIdle ==
  /\ ChainIdle
  /\ runs = 1
  /\ run = 1
  /\ targets = {}
  /\ maxConcurrency = Constructor(Unset)
  /\ stopAfterAttempt = 1
  /\ gpc = "idle"
  /\ total = 0
  /\ nextUuid = 1
  /\ pc = <<>>
  /\ attempt = <<>>
  /\ listFetched = <<>>
  /\ listPageHtml = <<>>
  /\ listParsed = <<>>
  /\ parsedList = <<>>
  /\ lookup = <<>>
  /\ list = <<>>
  /\ fetchSettled = <<>>
  /\ parseSettled = <<>>
  /\ detailFetchResult = <<>>
  /\ detailParseResult = <<>>
  /\ processedArticles = <<>>
  /\ count = <<>>
  /\ errors = <<>>
  /\ saved = <<>>
  /\ firstRun = <<>>
  /\ saveCalls = Unset
  /\ executions = Unset

\* ensureHrBeforeH2 is called on a markdown text of up to MaxLines lines.
HrInit ==
  /\ CrawlIdle
  /\ LlmIdle
  /\ \E lines \in SeqUpTo(HrLines, MaxLines) \ {<<>>} : markdown = Join(lines)
  /\ hrPc = "called"
  /\ hrResult = <<>>

EnsureHrBeforeH2 ==
  /\ hrPc = "called"
  /\ hrResult' = ensureHrBeforeH2(markdown)
  /\ hrPc' = "returned"
  /\ UNCHANGED <<markdown, llm, chain, config, history, group, nextUuid, pc, attempt,
                 stageData>>

HrNext == EnsureHrBeforeH2

HrSpec == HrInit /\ [][HrNext]_vars

\* ------------------------------------------------------------------ C21

\* The lines of the text by what the claim calls them.
BlankLines == {EmptyLine, SpaceLine}
BrTagLines == {BrLine, BrUpperLine}
RuleLines == {HrLine, HrIndentedLine}
HeadingLines == {H2Line}
ContentLines == HrLines \ (BlankLines \cup BrTagLines \cup RuleLines)

\* Line i of lines is a heading that some content line precedes and whose
\* nearest preceding line that is neither blank nor a <br> tag is not '---'.
HrDue(lines, i) ==
  /\ lines[i] \in HeadingLines
  /\ \E j \in 1..(i - 1) : lines[j] \in ContentLines
  /\ \E j \in 1..(i - 1) :
       /\ lines[j] \notin BlankLines \cup BrTagLines
       /\ \A k \in (j + 1)..(i - 1) : lines[k] \in BlankLines \cup BrTagLines
       /\ lines[j] \notin RuleLines

\* The lines from line i on, with a '---' line put before those where HrDue.
RECURSIVE WithHr(_, _)
WithHr(lines, i) ==
  IF i > Len(lines) THEN <<>>
  ELSE (IF HrDue(lines, i) THEN <<HrLine>> ELSE <<>>)
         \o <<lines[i]>> \o WithHr(lines, i + 1)

C21_WitnessNoInsert ==
  /\ hrPc = "returned"
  /\ Split(markdown) = <<TextLine, HrIndentedLine, H2Line>>
  /\ hrResult = markdown


\* ---------------------------------------------- GenerateNewsletter.execute

\* How many generateText calls of one execute are followed.
MaxLlmCalls == 2

\* Titles are sequences of words.
TitleContext == <<"Weekly", "Digest">>
MockTitles == {<<"Weekly", "Digest", "Key">>, <<"Unrelated">>}

\* The outputs generateText is made to resolve to.
MockOutputs ==
  {[title |-> ttl, content |-> "Body", isWrittenInOutputLanguage |-> lang,
    copyrightVerified |-> copy, factAccuracy |-> fact, extra |-> "x"] :
     ttl \in MockTitles, lang \in BOOLEAN, copy \in BOOLEAN, fact \in BOOLEAN}

\* buildUsage: the usage reported with an output; a token detail is a number
\* or undefined.
MockUsages ==
  {[inputTokens |-> 1, outputTokens |-> 2, totalTokens |-> 3,
    inputTokenDetails |-> [noCacheTokens |-> Unset, cacheReadTokens |-> Unset,
                           cacheWriteTokens |-> Unset],
    outputTokenDetails |-> [textTokens |-> Unset, reasoningTokens |-> Unset]],
   [inputTokens |-> 1, outputTokens |-> 2, totalTokens |-> 3,
    inputTokenDetails |-> [noCacheTokens |-> Configured(1),
                           cacheReadTokens |-> Unset,
                           cacheWriteTokens |-> Unset],
    outputTokenDetails |-> [textTokens |-> Configured(2),
                            reasoningTokens |-> Unset]],
   [inputTokens |-> 2, outputTokens |-> 2, totalTokens |-> 4,
    inputTokenDetails |-> [noCacheTokens |-> Unset,
                           cacheReadTokens |-> Configured(1),
                           cacheWriteTokens |-> Unset],
    outputTokenDetails |-> [textTokens |-> Unset,
                            reasoningTokens |-> Configured(1)]]}

\* title.includes(part)
Includes(title, part) ==
  \E i \in 0..(Len(title) - Len(part)) :
    SubSeq(title, i + 1, i + Len(part)) = part

\* Variant of PassesChecks that never looks at the title.
PassesChecksIgnoringTitle(output, context) ==
  /\ output.isWrittenInOutputLanguage
  /\ output.copyrightVerified
  /\ output.factAccuracy

\* Whether execute accepts an output.
PassesChecks(output, context) ==
  /\ output.isWrittenInOutputLanguage
  /\ output.copyrightVerified
  /\ output.factAccuracy
  /\ context # Unset => Includes(output.title, context[1])

\* Variant of AddOptional that is undefined as soon as one side is.
AddOptionalStrict(a, b) ==
  IF a = Unset \/ b = Unset THEN Unset ELSE Configured(a[1] + b[1])

\* The sum of two token details: undefined only when both are.
AddOptional(a, b) ==
  IF a = Unset /\ b = Unset THEN Unset
  ELSE Configured((IF a = Unset THEN 0 ELSE a[1]) + (IF b = Unset THEN 0 ELSE b[1]))

\* The usage of the calls so far plus that of one more call.
AddUsage(sum, usage) ==
  IF sum = Unset THEN usage
  ELSE [inputTokens |-> sum.inputTokens + usage.inputTokens,
        outputTokens |-> sum.outputTokens + usage.outputTokens,
        totalTokens |-> sum.totalTokens + usage.totalTokens,
        inputTokenDetails |->
          [f \in DOMAIN usage.inputTokenDetails |->
             AddOptional(sum.inputTokenDetails[f], usage.inputTokenDetails[f])],
        outputTokenDetails |->
          [f \in DOMAIN usage.outputTokenDetails |->
             AddOptional(sum.outputTokenDetails[f], usage.outputTokenDetails[f])]]

\* pick(output, ['title', 'content'])
PickTitleContent(output) == [title |-> output.title, content |-> output.content]

\* execute is called on an instance configured with a titleContext or none.
LlmInit ==
  /\ CrawlIdle
  /\ TextIdle
  /\ titleContext \in {Unset, Configured(TitleContext)}
  /\ llmPc = "calling"
  /\ generateTextCalls = <<>>
  /\ totalUsage = Unset
  /\ executeResult = Unset

\* execute awaits generateText, adds the usage to the sum, and returns when
\* the output passes the checks; it calls generateText again otherwise.
GenerateText ==
  /\ llmPc = "calling"
  /\ Len(generateTextCalls) < MaxLlmCalls
  /\ \E output \in MockOutputs, usage \in MockUsages :
       /\ generateTextCalls' =
            Append(generateTextCalls, [output |-> output, usage |-> usage])
       /\ totalUsage' = AddUsage(totalUsage, usage)
       /\ IF PassesChecks(output, titleContext)
          THEN /\ llmPc' = "returned"
               /\ executeResult' = [result |-> PickTitleContent(output),
                                    usage |-> totalUsage']
          ELSE UNCHANGED <<llmPc, executeResult>>
  /\ UNCHANGED <<titleContext, text, chain, config, history, group, nextUuid, pc,
                 attempt, stageData>>

LlmNext == GenerateText

LlmSpec == LlmInit /\ [][LlmNext]_vars

\* ------------------------------------------------------------------ C22

\* The output of call k has every flag true and, when a titleContext is
\* configured, a title containing it.
Acceptable(k) ==
  LET output == generateTextCalls[k].output
  IN  /\ output.isWrittenInOutputLanguage = TRUE
      /\ output.copyrightVerified = TRUE
      /\ output.factAccuracy = TRUE
      /\ titleContext # Unset =>
           \E i \in 1..Len(output.title) :
             /\ i + Len(titleContext[1]) - 1 <= Len(output.title)
             /\ \A j \in 1..Len(titleContext[1]) :
                  output.title[i + j - 1] = titleContext[1][j]

\* C22: execute calls the LLM again whenever the output has
\* isWrittenInOutputLanguage, copyrightVerified or factAccuracy false or,
\* with a titleContext configured, a title that does not contain it: no call
\* but the last has an acceptable output, and execute has returned exactly
\* when the last has; what it returns is the title and the content of that
\* first acceptable output and nothing else of it.
C22_RetriesUntilAcceptable ==
  /\ \A k \in 1..(Len(generateTextCalls) - 1) : ~Acceptable(k)
  /\ llmPc = "returned" <=>
       generateTextCalls # <<>> /\ Acceptable(Len(generateTextCalls))
  /\ llmPc = "returned" =>
       /\ DOMAIN executeResult.result = {"title", "content"}
       /\ executeResult.result.title =
            generateTextCalls[Len(generateTextCalls)].output.title
       /\ executeResult.result.content =
            generateTextCalls[Len(generateTextCalls)].output.content

\* execute returned after one output with a title that lacks the configured
\* titleContext and a second, acceptable one.
C22_Witness ==
  /\ llmPc = "returned"
  /\ titleContext # Unset
  /\ Len(generateTextCalls) = 2
  /\ generateTextCalls[1].output.isWrittenInOutputLanguage
  /\ generateTextCalls[1].output.copyrightVerified
  /\ generateTextCalls[1].output.factAccuracy
  /\ generateTextCalls[1].output.title = <<"Unrelated">>

\* ------------------------------------------------------------------ C23

\* The values a token detail has in the calls where it is defined.
RECURSIVE DetailSum(_, _, _)
DetailSum(detail, field, k) ==
  IF k = 0 THEN 0
  ELSE DetailSum(detail, field, k - 1)
       + (IF generateTextCalls[k].usage[detail][field] = Unset THEN 0
          ELSE generateTextCalls[k].usage[detail][field][1])

RECURSIVE CountSum(_, _)
CountSum(field, k) ==
  IF k = 0 THEN 0
  ELSE CountSum(field, k - 1) + generateTextCalls[k].usage[field]

DetailGroups == {"inputTokenDetails", "outputTokenDetails"}

\* C23: the usage execute returns is the field-wise sum of the usage of
\* every generateText call of that execute, rejected outputs included; a
\* token detail is undefined in it only if it is undefined in every call.
C23_UsageIsSumOfAllCalls ==
  llmPc = "returned" =>
    LET n == Len(generateTextCalls)
        usage == executeResult.usage
    IN  /\ \A f \in {"inputTokens", "outputTokens", "totalTokens"} :
             usage[f] = CountSum(f, n)
        /\ \A g \in DetailGroups : \A f \in DOMAIN usage[g] :
             IF \A k \in 1..n : generateTextCalls[k].usage[g][f] = Unset
             THEN usage[g][f] = Unset
             ELSE usage[g][f] = Configured(DetailSum(g, f, n))

\* execute returned after a rejected call that reported a token detail the
\* accepted call left undefined.
C23_Witness ==
  /\ llmPc = "returned"
  /\ Len(generateTextCalls) = 2
  /\ generateTextCalls[1].usage.inputTokenDetails.noCacheTokens # Unset
  /\ generateTextCalls[2].usage.inputTokenDetails.noCacheTokens = Unset
  /\ executeResult.usage.inputTokenDetails.noCacheTokens # Unset


\* ------------------------------------------------------------------ C24

\* The correlation ids the elements of a sequence carry.
IdsOf(artifacts) == {artifacts[k].pipelineId : k \in 1..Len(artifacts)}

\* C24: at every stage boundary of an attempt, the correlation ids carried
\* by the detail-side artifacts (the fetched payloads Detail Fetch returns,
\* the parsed-detail records Detail Parse returns) are among the correlation
\* ids carried by the list items returned along with them.
C24_DetailIdsAmongListIds ==
  \A t \in targets :
    /\ IdsOf(detailFetchResult[t].detailPagesHtmlWithPipelineId)
         \subseteq IdsOf(detailFetchResult[t].list)
    /\ IdsOf(detailParseResult[t].parsedDetails)
         \subseteq IdsOf(detailParseResult[t].list)

\* ------------------------------------------------------------------ C25

\* C25: in an attempt started at List Fetch the Merge correlation error is
\* unreachable: whatever parseList and parseDetail returned, Merge is never
\* about to throw, and no attempt has ended on the correlation error.
C25_MergeErrorUnreachable ==
  \A t \in targets :
    /\ pc[t] = "merge" => ~MergeResult(t).threw
    /\ (pc[t] \in {"threw", "failed"} /\ ThrewOfItself(t)) =>
         ~DetailParseReturned(t)


\* ------------------------------------------------------------------ C26

\* The correlation ids the items and payloads of the attempt in progress
\* carry.
IdsInUse(t) ==
  IdsOf(parsedList[t]) \cup IdsOf(list[t]) \cup IdsOf(detailFetchResult[t].list)
    \cup IdsOf(detailFetchResult[t].detailPagesHtmlWithPipelineId)
    \cup IdsOf(detailParseResult[t].list)

\* The attempt in progress has made the collaborator calls of the stages it
\* has left: its listing fetch, its lookup, one fetch per survivor.
CallsRepeated(t) ==
  /\ pc[t] \in {StageOrder[k] : k \in 2..Len(StageOrder)} =>
       listFetched[t].status # "pending"
  /\ pc[t] \in {"detailFetch", "detailFetchAwait", "detailParse",
                "detailParseAwait", "merge", "save", "done"} =>
       lookup[t].status = "fulfilled"
  /\ pc[t] \in {"detailParse", "detailParseAwait", "merge", "save", "done"} =>
       /\ Len(fetchSettled[t]) = Len(list[t])
       /\ \A i \in 1..Len(list[t]) : fetchSettled[t][i].status # "pending"

\* The items and payloads of the attempt in progress are those its own calls
\* produced: the survivors are items of its parsed list, the payloads are
\* the pages its own detail fetches resolved to.
OwnItemsOnly(t) ==
  /\ listParsed[t].status = "fulfilled" => ParsedAsReturned(t)
  /\ listParsed[t].status # "fulfilled" => parsedList[t] = <<>>
  /\ \A i \in 1..Len(list[t]) :
       \E j \in 1..Len(parsedList[t]) : list[t][i] = parsedList[t][j]
  /\ \A k \in 1..Len(detailFetchResult[t].detailPagesHtmlWithPipelineId) :
       \E i \in 1..Len(list[t]) :
         /\ i <= Len(fetchSettled[t])
         /\ fetchSettled[t][i] =
              Fulfilled(detailFetchResult[t].detailPagesHtmlWithPipelineId[k].html)
         /\ list[t][i].pipelineId =
              detailFetchResult[t].detailPagesHtmlWithPipelineId[k].pipelineId

\* C26: a retried attempt starts from a clean state and repeats the listing
\* fetch, the lookup and every detail fetch: the step into it leaves the
\* target nothing of the attempt that threw, every stage it leaves has made
\* its own collaborator calls, its items and payloads are those its own
\* calls produced, and the correlation ids it uses are minted by its own
\* List Parse, after every id of an earlier attempt or of another target.
C26_RetryStartsClean ==
  /\ [](\A t \in targets :
          /\ CallsRepeated(t)
          /\ OwnItemsOnly(t)
          /\ IdsInUse(t) \subseteq IdsOf(parsedList[t])
          /\ \A id \in IdsInUse(t) : id < nextUuid
          /\ \A u \in targets \ {t} : IdsInUse(t) \cap IdsInUse(u) = {})
  /\ [][\A t \in targets :
          /\ (pc[t] = "threw" /\ pc'[t] # pc[t] /\ pc'[t] # "failed") =>
               /\ pc'[t] = "listFetch"
               /\ AttemptData(t)' = FreshAttemptData
          /\ parsedList'[t] # parsedList[t] =>
               \A id \in IdsOf(parsedList'[t]) : id >= nextUuid]_vars

\* A second attempt that got as far as Save with a record of its own, after
\* a first attempt that had items too.
C26_Witness ==
  \E t \in targets :
    /\ attempt[t] = 2
    /\ pc[t] = "done"
    /\ SaveCalled(t)
    /\ Handed(t) # <<>>
    /\ \A id \in IdsInUse(t) : id > 1


\* ------------------------------------------------------------------ C27

\* The step ends a thrown attempt of target t: by a new attempt or for good.
LeavesThrown(t) == pc[t] = "threw" /\ pc'[t] # "threw"

SaveRejects(t) ==
  /\ pc[t] = "save"
  /\ Len(saved'[t]) = Len(saved[t]) + 1
  /\ saved'[t][Len(saved'[t])].outcome.status = "rejected"

\* The step is the Dedupe of target t, and the lookup rejects.
LookupRejects(t) ==
  /\ pc[t] = "dedupe"
  /\ lookup'[t].status = "rejected"

\* C28: an error thrown by the store's save, and likewise by the existing-
\* article lookup, is not absorbed by its stage: the stage logs no failure
\* and returns nothing, the attempt ends thrown; a thrown attempt is followed
\* by a new attempt from List Fetch while the budget lasts and by failure
\* otherwise; and an attempt completes only when its lookup and its save were
\* fulfilled.
C28_SaveAndLookupErrorsFailAttempt ==
  /\ [][\A t \in targets :
          /\ (SaveRejects(t) \/ LookupRejects(t)) =>
               /\ pc'[t] = "threw"
               /\ errors'[t] = errors[t]
               /\ count'[t] = count[t]
          /\ (pc[t] = "threw" /\ pc'[t] # "threw") =>
               IF attempt[t] < stopAfterAttempt
               THEN pc'[t] = "listFetch" /\ attempt'[t] = attempt[t] + 1
               ELSE pc'[t] = "failed"]_vars
  /\ [](\A t \in targets :
          pc[t] = "done" =>
            /\ lookup[t].status = "fulfilled"
            /\ Len(saved[t]) = 1
            /\ saved[t][1].outcome.status = "fulfilled")

\* The store threw on the Save of the first attempt, and the second attempt
\* submitted the same records again and completed.
C28_Witness ==
  \E t \in targets :
    /\ pc[t] = "done"
    /\ attempt[t] = 2
    /\ Len(saveCalls[t]) = 2
    /\ saveCalls[t][1] # <<>>
    /\ saveCalls[t][2] = saveCalls[t][1]


\* ------------------------------------------------------------------ C29

\* C29: List Parse attaches a correlation id to every item parseList
\* returned, before Dedupe is asked anything; within an attempt no two items
\* carry the same id, even with the same detail URL; and the ids of a List
\* Parse are minted at or above a counter that exceeds every id minted
\* before, so no id of an earlier attempt or of another target comes again.
C29_FreshIdPerParsedItem ==
  /\ [](\A t \in targets :
          /\ listParsed[t].status = "fulfilled" =>
               /\ Len(parsedList[t]) = Len(listParsed[t].value)
               /\ \A i \in 1..Len(parsedList[t]) :
                    "pipelineId" \in DOMAIN parsedList[t][i]
          /\ \A i \in 1..Len(parsedList[t]) : \A j \in 1..Len(parsedList[t]) :
               i # j => parsedList[t][i].pipelineId # parsedList[t][j].pipelineId
          /\ \A i \in 1..Len(parsedList[t]) :
               parsedList[t][i].pipelineId < nextUuid)
  /\ [][\A t \in targets :
          parsedList'[t] # parsedList[t] /\ parsedList'[t] # <<>> =>
            /\ pc[t] = "listParse"
            /\ lookup'[t].status = "pending"
            /\ \A i \in 1..Len(parsedList'[t]) :
                 /\ parsedList'[t][i].pipelineId >= nextUuid
                 /\ parsedList'[t][i].pipelineId < nextUuid']_vars

\* The second attempt of a target parsed two items of the same detail URL,
\* after a first attempt that had parsed two items too.
C29_Witness ==
  \E t \in targets :
    /\ attempt[t] = 2
    /\ Len(parsedList[t]) = 2
    /\ parsedList[t][1].detailUrl = parsedList[t][2].detailUrl
    /\ parsedList[t][1].pipelineId # parsedList[t][2].pipelineId
    /\ parsedList[t][1].pipelineId > 2


\* ------------------------------------------------------------------ C30

\* The attempt of t leaves the step p.
Leaves(t, p) == pc[t] = p /\ pc'[t] # p

\* C30: an attempt that reaches Save invokes the store exactly once, with
\* whatever Merge returned, the empty list included: none before the Save
\* step, one call more by it, none after; and every attempt invokes the
\* existing-article lookup exactly once, at Dedupe, an empty candidate list
\* included: the lookup is unasked before the Dedupe step, settled by it,
\* and not asked again in the attempt.
C30_OneSaveAndOneLookupPerAttempt ==
  /\ [](\A t \in targets :
          /\ pc[t] = "save" => saved[t] = <<>>
          /\ pc[t] = "done" => Len(saved[t]) = 1
          /\ Len(saved[t]) <= 1
          /\ pc[t] = "dedupe" => lookup[t].status = "pending"
          /\ pc[t] \in {StageOrder[k] : k \in 4..Len(StageOrder)} =>
               lookup[t].status = "fulfilled")
  /\ [][\A t \in targets :
          /\ Leaves(t, "save") =>
               /\ Len(saved'[t]) = 1
               /\ saved'[t][1].articles = processedArticles[t]
          /\ Leaves(t, "dedupe") => lookup'[t].status # "pending"
          /\ (saved'[t] # saved[t] /\ saved'[t] # <<>>) => pc[t] = "save"
          /\ (lookup'[t] # lookup[t] /\ lookup'[t].status # "pending") =>
               pc[t] = "dedupe"]_vars

\* An attempt whose parseList returned no item asked the lookup and called
\* the store once, with no record, and completed.
C30_Witness ==
  \E t \in targets :
    /\ pc[t] = "done"
    /\ listParsed[t].status = "fulfilled"
    /\ parsedList[t] = <<>>
    /\ lookup[t].status = "fulfilled"
    /\ Len(saved[t]) = 1
    /\ saved[t][1].articles = <<>>


\* ------------------------------------------------------------------ C31

\* The steps of an attempt from place k of the order on.
StagesFrom(k) == {StageOrder[j] : j \in k..Len(StageOrder)}

\* C31: in an attempt no detail fetch is issued before Detail Fetch starts;
\* from then on there is one fetch per Dedupe survivor, and the page a
\* fulfilled fetch resolved to is that of the survivor's detail URL; no
\* parseDetail call is made before Detail Parse starts, and from then on
\* there is one call per fulfilled fetch, on the page that fetch resolved
\* to, and none for a rejected fetch.
C31_OneFetchPerSurvivorOneParsePerPayload ==
  \A t \in targets :
    /\ pc[t] \in StagesFrom(1) \ StagesFrom(5) => fetchSettled[t] = <<>>
    /\ pc[t] \in StagesFrom(5) =>
         /\ Len(fetchSettled[t]) = Len(list[t])
         /\ \A i \in 1..Len(list[t]) :
              fetchSettled[t][i].status = "fulfilled" =>
                fetchSettled[t][i].value.html = list[t][i].detailUrl
    /\ pc[t] \in StagesFrom(1) \ StagesFrom(7) => parseSettled[t] = <<>>
    /\ pc[t] \in StagesFrom(7) =>
         /\ Len(parseSettled[t]) = Len(FulfilledIdx(fetchSettled[t]))
         /\ Len(parseSettled[t]) =
              Len(detailFetchResult[t].detailPagesHtmlWithPipelineId)
         /\ \A k \in 1..Len(parseSettled[t]) :
              detailFetchResult[t].detailPagesHtmlWithPipelineId[k].html =
                fetchSettled[t][FulfilledIdx(fetchSettled[t])[k]].value

\* Of two survivors one was fetched and one was not: two fetches were issued
\* and one parseDetail call was made.
C31_Witness ==
  \E t \in targets :
    /\ pc[t] = "done"
    /\ Len(list[t]) = 2
    /\ Len(fetchSettled[t]) = 2
    /\ fetchSettled[t][1].status = "rejected"
    /\ fetchSettled[t][2].status = "fulfilled"
    /\ Len(parseSettled[t]) = 1
    /\ Len(parsedList[t]) = 2


\* ------------------------------------------------------------------ C32

\* The logger.error events of the attempt of t that report a failed parse
\* of the listing.
ListParseErrors(t) ==
  {k \in 1..Len(errors[t]) : errors[t][k].event = "crawl.list.parse.failed"}

\* C32: when the content of the listing is empty, be it what a fetch
\* resolved to or what a failed fetch left, List Parse returns the empty
\* list and goes on to Dedupe, parseList is not invoked, no correlation id
\* is minted and no parse error is logged.
C32_EmptyListingShortCircuits ==
  /\ [](\A t \in targets :
          listPageHtml[t] = "" =>
            /\ listParsed[t].status = "pending"
            /\ parsedList[t] = <<>>
            /\ ListParseErrors(t) = {})
  /\ [][\A t \in targets :
          (pc[t] = "listParse" /\ pc'[t] # pc[t] /\ listPageHtml[t] = "") =>
            /\ pc'[t] = "dedupe"
            /\ listParsed'[t].status = "pending"
            /\ parsedList'[t] = <<>>
            /\ errors'[t] = errors[t]
            /\ nextUuid' = nextUuid]_vars

\* A listing fetch resolved to empty content, and List Parse and Dedupe
\* have returned.
C32_Witness ==
  \E t \in targets :
    /\ listFetched[t].status = "fulfilled"
    /\ listPageHtml[t] = ""
    /\ pc[t] = "detailFetch"
    /\ list[t] = <<>>
    /\ errors[t] = <<>>

\* ------------------------------------------------- the logging executions

\* A group of several targets whose logging executor records its calls.
LoggedInit ==
  /\ InitWith(1, AllTargets, {Unset})
  /\ saveCalls = Unset
  /\ executions = [group |-> <<>>, targets |-> [t \in AllTargets |-> <<>>]]

LoggedSpec == LoggedInit /\ [][Next]_vars

\* The events the seven stages hand to executeWithLogging, in pipe order.
StageEvents ==
  <<"crawl.list.fetch", "crawl.list.parse", "crawl.list.dedupe",
    "crawl.detail.fetch", "crawl.detail.parse", "crawl.merge", "crawl.save">>

\* How many stages the attempt of target t in progress has entered.
StagesEntered(t) ==
  CASE pc[t] \in {"idle", "queued", "listFetch"} -> 0
    [] pc[t] = "listParse" -> 1
    [] pc[t] = "dedupe" -> 2
    [] pc[t] = "detailFetch" -> 3
    [] pc[t] \in {"detailFetchAwait", "detailParse"} -> 4
    [] pc[t] \in {"detailParseAwait", "merge"} -> 5
    [] pc[t] = "save" -> 6
    [] pc[t] = "done" -> 7

\* Whether the stage target t is in has been entered and not left.
InsideStage(t) == pc[t] \in {"detailFetchAwait", "detailParseAwait"}

\* C33: every stage execution is wrapped in exactly one logging execution,
\* and so is the group run.  While no attempt has been retried, a target's
\* executions are the stages it has entered, in pipe order, one each; each
\* has emitted its start event first, then done once the stage returned; an
\* attempt that threw has the start event of the stage that threw, followed
\* by the error event.  A group run of N targets that returns without a
\* retry has made 7 * N + 1 executions.
C33_OneLoggingExecutionPerStage ==
  /\ \A t \in targets :
       LET log == executions.targets[t] IN
         /\ \A j \in 1..Len(log) : log[j].emitted[1] = "start"
         /\ attempt[t] <= 1 /\ pc[t] \notin {"threw", "failed"} =>
              /\ Len(log) = StagesEntered(t)
              /\ \A j \in 1..Len(log) :
                   /\ log[j].event = StageEvents[j]
                   /\ log[j].emitted =
                        IF j = Len(log) /\ InsideStage(t)
                        THEN <<"start">> ELSE <<"start", "done">>
         /\ attempt[t] = 1 /\ pc[t] \in {"threw", "failed"} =>
              /\ Len(log) \in 1..Len(StageEvents)
              /\ \A j \in 1..Len(log) :
                   /\ log[j].event = StageEvents[j]
                   /\ log[j].emitted =
                        IF j = Len(log)
                        THEN <<"start", "error">> ELSE <<"start", "done">>
  /\ Len(executions.group) = IF gpc = "idle" THEN 0 ELSE 1
  /\ gpc # "idle" =>
       /\ executions.group[1].event = "crawl.group"
       /\ executions.group[1].emitted =
            CASE gpc = "running" -> <<"start">>
              [] gpc = "returned" -> <<"start", "done">>
              [] gpc = "threw" -> <<"start", "error">>
  /\ gpc = "returned" /\ (\A t \in targets : attempt[t] = 1) =>
       Len(executions.group)
         + SumCounts([t \in targets |-> Len(executions.targets[t])], targets)
         = 7 * Cardinality(targets) + 1

\* Two targets ran their seven stages once each and the group run returned:
\* fifteen executions.
C33_Witness ==
  /\ gpc = "returned"
  /\ Cardinality(targets) = 2
  /\ \A t \in targets : attempt[t] = 1 /\ Len(executions.targets[t]) = 7
  /\ Len(executions.group) = 1

\* A stage threw in a first attempt: its start event is there, and its error
\* event.
C33_WitnessThrew ==
  \E t \in targets :
    /\ attempt[t] = 1
    /\ pc[t] = "threw"
    /\ executions.targets[t] # <<>>
    /\ executions.targets[t][Len(executions.targets[t])].emitted = <<"start", "error">>

\* ---------------------------------------------------- the chain getter

\* How many groups the provider configures.
MaxGroups == 2

\* Names the configured groups can have.
GroupNames == {"group-1", "group-2"}

\* get chain(): crawlingTargetGroups.reduce((result, group) =>
\* ({ ...result, [group.name]: () => this.executeGroupPipeline(group) }), {})
\* over the first n groups.  An entry is the index of the group its closure
\* holds.
RECURSIVE ChainMapping(_, _)
ChainMapping(groups, n) ==
  IF n = 0 THEN <<>>
  ELSE LET result == ChainMapping(groups, n - 1) IN
         [key \in DOMAIN result \cup {groups[n].name} |->
            IF key = groups[n].name THEN n ELSE result[key]]

\* The mapping the chain getter hands to RunnablePassthrough.assign.
Chain == ChainMapping(crawlingTargetGroups, Len(crawlingTargetGroups))

\* The group the entry of a key runs.
GroupOf(key) == crawlingTargetGroups[Chain[key]]

\* MaxGroups groups of one target each, named freely; the provider leaves
\* maxConcurrency unset.  targets holds the targets of all the groups.
ChainInit ==
  /\ TextIdle
  /\ LlmIdle
  /\ saveCalls = Unset
  /\ executions = Unset
  /\ \E names \in [1..MaxGroups -> GroupNames] :
       crawlingTargetGroups = [i \in 1..MaxGroups |-> [name |-> names[i], targets |-> {i}]]
  /\ entries = [key \in DOMAIN Chain |-> [pc |-> "idle", total |-> 0]]
  /\ runs = 1
  /\ run = 1
  /\ targets = 1..MaxGroups
  /\ maxConcurrency = Constructor(Unset)
  /\ stopAfterAttempt \in 1..MaxAttempts
  /\ gpc = "idle"
  /\ total = 0
  /\ nextUuid = 1
  /\ pc = [t \in targets |-> "idle"]
  /\ attempt = [t \in targets |-> 0]
  /\ listFetched = [t \in targets |-> Pending]
  /\ listPageHtml = [t \in targets |-> ""]
  /\ listParsed = [t \in targets |-> Pending]
  /\ parsedList = [t \in targets |-> <<>>]
  /\ lookup = [t \in targets |-> Pending]
  /\ list = [t \in targets |-> <<>>]
  /\ fetchSettled = [t \in targets |-> <<>>]
  /\ parseSettled = [t \in targets |-> <<>>]
  /\ detailFetchResult = [t \in targets |-> NoFetchResult]
  /\ detailParseResult = [t \in targets |-> NoParseResult]
  /\ processedArticles = [t \in targets |-> <<>>]
  /\ count = [t \in targets |-> 0]
  /\ errors = [t \in targets |-> <<>>]
  /\ saved = [t \in targets |-> <<>>]
  /\ firstRun = RunRecord

\* An entry of the mapping is invoked: executeGroupPipeline(group) queues one
\* pipeline per target of the group the closure holds.
InvokeEntry(key) ==
  /\ key \in DOMAIN Chain
  /\ entries[key].pc = "idle"
  /\ entries' = [entries EXCEPT ![key].pc = "running"]
  /\ pc' = [t \in targets |->
              IF t \in GroupOf(key).targets THEN "queued" ELSE pc[t]]
  /\ UNCHANGED <<text, llm, crawlingTargetGroups, config, history, group,
                 nextUuid, attempt, stageData>>

\* Every pipeline of the entry's group resolved: the entry returns the sum.
EntryReturn(key) ==
  /\ key \in DOMAIN Chain
  /\ entries[key].pc = "running"
  /\ \A t \in GroupOf(key).targets : pc[t] = "done"
  /\ entries' = [entries EXCEPT
                   ![key] = [pc |-> "returned",
                             total |-> SumCounts(count, GroupOf(key).targets)]]
  /\ UNCHANGED <<text, llm, crawlingTargetGroups, config, history, group,
                 nextUuid, pc, attempt, stageData>>

\* A pipeline of the entry's group rejected after its last attempt: the
\* entry throws.
EntryThrow(key) ==
  /\ key \in DOMAIN Chain
  /\ entries[key].pc = "running"
  /\ \E t \in GroupOf(key).targets : pc[t] = "failed"
  /\ entries' = [entries EXCEPT ![key].pc = "threw"]
  /\ UNCHANGED <<text, llm, crawlingTargetGroups, config, history, group,
                 nextUuid, pc, attempt, stageData>>

ChainNext ==
  \/ \E key \in GroupNames : InvokeEntry(key)
  \/ \E t \in targets : StartTarget(t)
  \/ \E t \in targets : ListFetch(t)
  \/ \E t \in targets : ListParse(t)
  \/ \E t \in targets : Dedupe(t)
  \/ \E t \in targets : DetailFetchStart(t)
  \/ \E t \in targets : DetailFetchSettle(t)
  \/ \E t \in targets : DetailFetchJoin(t)
  \/ \E t \in targets : DetailParseStart(t)
  \/ \E t \in targets : DetailParseSettle(t)
  \/ \E t \in targets : DetailParseJoin(t)
  \/ \E t \in targets : Merge(t)
  \/ \E t \in targets : Save(t)
  \/ \E t \in targets : Retry(t)
  \/ \E key \in GroupNames : EntryReturn(key)
  \/ \E key \in GroupNames : EntryThrow(key)

ChainSpec == ChainInit /\ [][ChainNext]_vars

\* The groups whose entry has been invoked.
InvokedGroups == {Chain[key] : key \in {k \in DOMAIN Chain : entries[k].pc # "idle"}}

\* Whatever the names: a pipeline has started only for the targets of a
\* group whose entry was invoked, and an entry that has not been invoked has
\* left the targets of its group untouched.
EntriesRunOwnTargetsOnly ==
  \A t \in targets :
    pc[t] # "idle" =>
      \E i \in InvokedGroups : t \in crawlingTargetGroups[i].targets

\* C34: the chain has exactly one entry per configured group, under the
\* group's name, which runs that group; and only the targets of the
\* invoked entries' groups are fetched, looked up and saved for.
C34_OneEntryPerGroup ==
  /\ Cardinality(DOMAIN Chain) = Len(crawlingTargetGroups)
  /\ \A i \in 1..Len(crawlingTargetGroups) :
       /\ crawlingTargetGroups[i].name \in DOMAIN Chain
       /\ Chain[crawlingTargetGroups[i].name] = i
  /\ EntriesRunOwnTargetsOnly

\* Two groups of different names: both entries were invoked and returned,
\* each the count of its own target.
C34_DistinctNamesWitness ==
  /\ Cardinality(DOMAIN Chain) = 2
  /\ \A key \in DOMAIN Chain :
       /\ entries[key].pc = "returned"
       /\ entries[key].total = SumCounts(count, GroupOf(key).targets)
  /\ \E t \in targets : count[t] > 0

\* ------------------------------------------------ accounting of the fan-outs

\* C35: when Detail Fetch has returned, the surviving items and failedCount
\* add up to the items it was given, there are as many payloads as
\* surviving items, and the i-th payload carries the correlation id of the
\* i-th surviving item.
C35_DetailFetchAccounting ==
  \A t \in targets :
    DetailFetchReturned(t) =>
      LET result == detailFetchResult[t] IN
        /\ Len(result.list) + result.failedCount = Len(list[t])
        /\ Len(result.detailPagesHtmlWithPipelineId) = Len(result.list)
        /\ \A i \in 1..Len(result.list) :
             result.detailPagesHtmlWithPipelineId[i].pipelineId
               = result.list[i].pipelineId

\* Of two items one fetch was rejected and the other fulfilled.
C35_Witness ==
  \E t \in targets :
    /\ DetailFetchReturned(t)
    /\ Len(list[t]) = 2
    /\ detailFetchResult[t].failedCount = 1
    /\ Len(detailFetchResult[t].detailPagesHtmlWithPipelineId) = 1

\* C36: when Detail Parse has returned, the parsed details and failedCount
\* add up to the payloads it was given, there are as many surviving items as
\* parsed details, and one 'crawl.detail.parse.failed' error is logged per
\* counted failure.
C36_DetailParseAccounting ==
  \A t \in targets :
    DetailParseReturned(t) =>
      LET result == detailParseResult[t] IN
        /\ Len(result.parsedDetails) + result.failedCount
             = Len(detailFetchResult[t].detailPagesHtmlWithPipelineId)
        /\ Len(result.list) = Len(result.parsedDetails)
        /\ Logged(t, "crawl.detail.parse.failed") = result.failedCount

\* Of two payloads one was parsed and the other, which has no list item, was
\* counted as failed and logged.
C36_Witness ==
  \E t \in targets :
    /\ DetailParseReturned(t)
    /\ detailParseResult[t].failedCount = 1
    /\ Len(detailParseResult[t].parsedDetails) = 1
    /\ \E k \in 1..Len(errors[t]) :
         errors[t][k].error = "Missing list item for parsed detail"

\* Both payloads were counted as failed, one whose parse was rejected and one
\* that has no list item.
C36_WitnessBothKinds ==
  \E t \in targets :
    /\ DetailParseReturned(t)
    /\ detailParseResult[t].failedCount = 2
    /\ \E k \in 1..Len(errors[t]) :
         errors[t][k].error = "Missing list item for parsed detail"
    /\ \E k \in 1..Len(errors[t]) : errors[t][k].error = "rejected"

\* ------------------------------------------------------------ termination

\* The group run under the scheduling the runtime gives it: a continuation
\* that can run does run, and every collaborator call that is in flight
\* settles.
LiveSpec == GroupInit /\ [][Next]_vars /\ WF_vars(Next)

\* A detail fetch or a detail parse of target t is in flight.
InFlight(t) ==
  \/ /\ pc[t] = "detailFetchAwait"
     /\ \E i \in 1..Len(fetchSettled[t]) : fetchSettled[t][i].status = "pending"
  \/ /\ pc[t] = "detailParseAwait"
     /\ \E i \in 1..Len(parseSettled[t]) : parseSettled[t][i].status = "pending"

\* The group run has ended: it returned a total, or it threw.
GroupEnded == gpc \in {"returned", "threw"}

\* C37: when every collaborator call settles, a group run that has started
\* ends, returning or throwing.  And while a detail fetch or parse of a target is in flight,
\* no step takes the target out of the stage that awaits it, and none makes
\* the group run return: a call that never settles blocks them for ever.
C37_EndsUnlessCollaboratorHangs ==
  /\ (gpc = "running") ~> GroupEnded
  /\ [][\A t \in targets :
          InFlight(t) => /\ pc'[t] = pc[t]
                         /\ attempt'[t] = attempt[t]
                         /\ gpc' # "returned"]_vars

\* The group run returned after detail fetches and parses of every target
\* had been in flight and settled.
C37_Witness ==
  /\ gpc = "returned"
  /\ \A t \in targets :
       /\ fetchSettled[t] # <<>>
       /\ parseSettled[t] # <<>>

\* ------------------------------------------- duplicates within one listing

\* The number of items of detail URL u in a list.
ItemsOf(items, u) ==
  Cardinality({i \in 1..Len(items) : items[i].detailUrl = u})

\* parseList returned the detail URL u twice and the lookup did not report it.
ListedTwiceAndNew(t, u) ==
  /\ lookup[t].status = "fulfilled"
  /\ u \notin lookup[t].value
  /\ ItemsOf(parsedList[t], u) = 2

\* What Dedupe does with duplicates: it removes the items the lookup
\* reports and keeps every other item, as often as parseList returned it;
\* Detail Fetch then starts one fetch per kept item.
DedupeKeepsDuplicates ==
  \A t \in targets :
    lookup[t].status = "fulfilled" =>
      /\ \A u \in Urls :
           ItemsOf(list[t], u) =
             IF u \in lookup[t].value THEN 0 ELSE ItemsOf(parsedList[t], u)
      /\ pc[t] \in StagesFrom(5) => Len(fetchSettled[t]) = Len(list[t])

\* C38: Dedupe removes only the items the lookup reports.  When parseList
\* returned two items of one detail URL that the lookup does not report,
\* both survive Dedupe and both are fetched; and when the fetch and the parse
\* of both were fulfilled, the attempt has handed two records of that URL to
\* Save.
C38_DuplicatesSurviveAndAreSaved ==
  /\ DedupeKeepsDuplicates
  /\ \A t \in targets : \A u \in Urls :
       (/\ AttemptEnded(t)
        /\ ListedTwiceAndNew(t, u)
        /\ \A i \in 1..Len(list[t]) : list[t][i].detailUrl = u => ParseOk(t, i))
       => /\ SaveCalled(t)
          /\ HandedFor(t, u) = 2

\* Two items of one URL went through fetch and parse and two records of
\* that URL were handed to Save.
C38_TwoRecordsSaved ==
  \E t \in targets : \E u \in Urls :
    /\ ListedTwiceAndNew(t, u)
    /\ SaveCalled(t)
    /\ HandedFor(t, u) = 2

\* ------------------------------------------------------ the merged record

\* Merge has returned in the attempt in progress.
MergeReturned(t) == pc[t] \in {"save", "done"} \/ SaveCalled(t)

\* The item of the list Merge was given that carries the correlation id.
ItemOfId(t, id) ==
  LET items == detailParseResult[t].list
  IN items[CHOOSE i \in 1..Len(items) : items[i].pipelineId = id]

\* C39: Merge returns one record per parsed detail; the record has every
\* field of the list item and every field of the parsed detail but the
\* correlation id, with the detail's value where both have the field (so a
\* detailUrl of the detail replaces the item's); and these records are what
\* Save is handed.
C39_MergedRecordDetailWins ==
  \A t \in targets :
    MergeReturned(t) =>
      LET details == detailParseResult[t].parsedDetails
          merged == processedArticles[t]
      IN /\ Len(merged) = Len(details)
         /\ \A k \in 1..Len(details) :
              LET detail == details[k]
                  item == ItemOfId(t, detail.pipelineId)
              IN /\ DOMAIN merged[k] =
                      (DOMAIN item \cup DOMAIN detail) \ {"pipelineId"}
                 /\ \A f \in DOMAIN merged[k] :
                      merged[k][f] = IF f \in DOMAIN detail THEN detail[f] ELSE item[f]
         /\ SaveCalled(t) => Handed(t) = merged

\* parseDetail returned a detailUrl that differs from the item's, and the
\* record handed to Save carries the detail's.
C39_Witness ==
  \E t \in targets :
    /\ SaveCalled(t)
    /\ \E k \in 1..Len(Handed(t)) :
         LET detail == detailParseResult[t].parsedDetails[k]
             item == ItemOfId(t, detail.pipelineId)
         IN /\ "detailUrl" \in DOMAIN detail
            /\ detail.detailUrl # item.detailUrl
            /\ Handed(t)[k].detailUrl = detail.detailUrl
            /\ Handed(t)[k].title = item.title

\* ----------------------------------------- ensureHrBeforeH2 applied twice

\* ensureHrBeforeH2 is called on what it returned: markdown is now the
\* argument of this second call.
EnsureHrBeforeH2Again ==
  /\ hrPc = "returned"
  /\ markdown' = hrResult
  /\ hrResult' = ensureHrBeforeH2(hrResult)
  /\ hrPc' = "reapplied"
  /\ UNCHANGED <<llm, chain, config, history, group, nextUuid, pc, attempt,
                 stageData>>

HrTwiceNext == EnsureHrBeforeH2 \/ EnsureHrBeforeH2Again

HrTwiceSpec == HrInit /\ [][HrTwiceNext]_vars

\* Deleting some lines that are exactly '---' from out gives the lines of
\* inp, line for line.
RECURSIVE OnlyHrInserted(_, _)
OnlyHrInserted(out, inp) ==
  IF out = <<>> THEN inp = <<>>
  ELSE \/ /\ inp # <<>>
          /\ Head(out) = Head(inp)
          /\ OnlyHrInserted(Tail(out), Tail(inp))
       \/ /\ Head(out) = HrLine
          /\ OnlyHrInserted(Tail(out), inp)

\* C40: what ensureHrBeforeH2 returns is its argument with '---' lines
\* inserted and nothing else changed, and applied to what it returned it
\* returns the same text.
C40_OnlyInsertsAndIdempotent ==
  /\ hrPc = "returned" => OnlyHrInserted(Split(hrResult), Split(markdown))
  /\ hrPc = "reapplied" => hrResult = markdown

\* The second call was made on a text into which the first call had
\* inserted a '---' line, and returned it unchanged.
C40_Witness ==
  /\ hrPc = "reapplied"
  /\ hrResult = markdown
  /\ \E i \in 2..(Len(Split(markdown)) - 1) :
       /\ Split(markdown)[i] = HrLine
       /\ Split(markdown)[i + 1] = H2Line
       /\ Split(markdown)[i - 1] = TextLine
       /\ Len(Split(markdown)) = 3

====
